---- MODULE Spec2Model ----
(***************************************************************************)
(* Anchor: the code graph (build, incremental watcher updates, save/load)  *)
(* and the daemon (accept loop, request handlers, graph lock, shutdown).   *)
(*                                                                         *)
(* The graph engine (graph/engine.rs) is modelled from the specification   *)
(* of its operations (spec.md, section 4.3).  Builder, persistence,        *)
(* watcher and daemon are translated from their sources.                   *)
(***************************************************************************)
EXTENDS Integers, Sequences, FiniteSets, TLC

(***************************************************************************)
(* Bounds                                                                  *)
(***************************************************************************)
\* Number of file-system changes in one behaviour of the watcher model.
MaxOps == 2
\* Number of file-system changes in one behaviour of the persistence model.
MaxPersistOps == 1
\* Number of file-system changes in one behaviour of the save model.
MaxSaveOps == 1
\* Number of file-system changes in one behaviour of the daemon model.
MaxDaemonOps == 1
\* Number of client connections in one behaviour of the daemon model.
MaxConns == 2

(***************************************************************************)
(* Source tree: paths, file contents and their extraction                  *)
(***************************************************************************)
Paths == {"src/a.rs", "src/b.rs"}
Names == {"helper", "main"}

\* A path that is not in the tree.
Absent == [exists |-> FALSE]

\* A file whose read or extraction fails (fs::read_to_string or extract_file
\* returns Err): it exists but yields no extraction.
Bad == [exists |-> TRUE, ok |-> FALSE]

\* A readable file, given by what extract_file finds in it: its symbols in
\* source order, its calls (caller scope, callee short name) and its imports.
Src(syms, calls, imports) ==
    [exists |-> TRUE, ok |-> TRUE, symbols |-> syms, calls |-> calls,
     imports |-> imports]

cHelper == Src(<<"helper">>, {}, {})
cMain == Src(<<"main">>, {<<"main", "helper">>}, {"src/a.rs"})
cBoth == Src(<<"helper", "main">>, {<<"main", "helper">>}, {})

Contents == {cHelper, cMain, cBoth, Bad}

Trees == [Paths -> Contents \cup {Absent}]

\* extract_file(path, source): Ok(FileExtractions) or Err.
extract_file(path, c) ==
    IF c.ok
    THEN [ok |-> TRUE, file_path |-> path, symbols |-> c.symbols,
          calls |-> c.calls, imports |-> c.imports]
    ELSE [ok |-> FALSE]

(***************************************************************************)
(* Graph engine                                                            *)
(***************************************************************************)
FileNode(path, rem) ==
    [kind |-> "File", name |-> path, file_path |-> path, removed |-> rem]
SymbolNode(name, path, rem) ==
    [kind |-> "Function", name |-> name, file_path |-> path, removed |-> rem]

\* CodeGraph::new()
NewGraph ==
    [nodes |-> <<>>, edges |-> {},
     file_index |-> [p \in Paths |-> {}],
     name_index |-> [n \in Names |-> {}]]

NodeIds(g) == 1..Len(g.nodes)
IsVisible(g, i) == i \in NodeIds(g) /\ ~g.nodes[i].removed
VisibleEdges(g) == {e \in g.edges : IsVisible(g, e.src) /\ IsVisible(g, e.dst)}

\* The File node the file index holds for a path (0: none).
FileIdOf(g, path) ==
    LET ids == {i \in g.file_index[path] : g.nodes[i].kind = "File"}
    IN IF ids = {} THEN 0 ELSE CHOOSE i \in ids : \A j \in ids : i <= j

\* add_file(path): idempotent on path, returns the existing id if any.
add_file(g, path) ==
    IF FileIdOf(g, path) # 0 THEN g
    ELSE [g EXCEPT !.nodes = Append(@, FileNode(path, FALSE)),
                   !.file_index[path] = @ \cup {Len(g.nodes) + 1}]

\* add_symbol(...): always a new node, entered in the name and file indexes.
add_symbol(g, name, path) ==
    [g EXCEPT !.nodes = Append(@, SymbolNode(name, path, FALSE)),
              !.name_index[name] = @ \cup {Len(g.nodes) + 1},
              !.file_index[path] = @ \cup {Len(g.nodes) + 1}]

\* add_edge(src, dst, kind): exact duplicates are skipped.
add_edge(g, src, dst, kind) ==
    [g EXCEPT !.edges = @ \cup {[src |-> src, dst |-> dst, kind |-> kind]}]

\* remove_file that only tombstones and purges the indexes: the incident
\* edges stay.
remove_file_keep_edges(g, path) ==
    LET ids == g.file_index[path]
    IN [nodes |-> [i \in NodeIds(g) |->
                     IF i \in ids THEN [g.nodes[i] EXCEPT !.removed = TRUE]
                     ELSE g.nodes[i]],
        edges |-> g.edges,
        file_index |-> [g.file_index EXCEPT ![path] = {}],
        name_index |-> [n \in Names |-> g.name_index[n] \ ids]]

\* remove_file(path): tombstones the file node and its symbols, removes
\* their incident edges and purges their index entries.
remove_file(g, path) ==
    LET ids == g.file_index[path]
    IN [nodes |-> [i \in NodeIds(g) |->
                     IF i \in ids THEN [g.nodes[i] EXCEPT !.removed = TRUE]
                     ELSE g.nodes[i]],
        edges |-> {e \in g.edges : e.src \notin ids /\ e.dst \notin ids},
        file_index |-> [g.file_index EXCEPT ![path] = {}],
        name_index |-> [n \in Names |-> g.name_index[n] \ ids]]

RECURSIVE InsertFiles(_, _)
InsertFiles(g, batch) ==
    IF batch = <<>> THEN g
    ELSE InsertFiles(add_file(g, Head(batch).file_path), Tail(batch))

RECURSIVE InsertSymbolsOf(_, _, _)
InsertSymbolsOf(g, path, syms) ==
    IF syms = <<>> THEN g
    ELSE LET g1 == add_symbol(g, Head(syms), path)
             g2 == add_edge(g1, FileIdOf(g1, path), Len(g1.nodes), "Defines")
         IN InsertSymbolsOf(g2, path, Tail(syms))

RECURSIVE InsertSymbols(_, _)
InsertSymbols(g, batch) ==
    IF batch = <<>> THEN g
    ELSE InsertSymbols(
             InsertSymbolsOf(g, Head(batch).file_path, Head(batch).symbols),
             Tail(batch))

\* Calls of the batch, resolved by callee short name in the name index (an
\* edge to every candidate); the caller is the symbol of that name in the
\* calling file.
ResolvedCalls(g, batch) ==
    {[src |-> u, dst |-> v, kind |-> "Calls"] :
        <<u, v>> \in
          {uv \in NodeIds(g) \X NodeIds(g) :
             \E k \in 1..Len(batch) : \E c \in batch[k].calls :
                /\ uv[1] \in g.file_index[batch[k].file_path]
                /\ uv[1] \in g.name_index[c[1]]
                /\ uv[2] \in g.name_index[c[2]]}}

\* Imports of the batch, resolved to the File node of the imported path.
ResolvedImports(g, batch) ==
    {[src |-> u, dst |-> v, kind |-> "Imports"] :
        <<u, v>> \in
          {uv \in NodeIds(g) \X NodeIds(g) :
             \E k \in 1..Len(batch) : \E q \in batch[k].imports :
                /\ uv[1] = FileIdOf(g, batch[k].file_path)
                /\ uv[2] = FileIdOf(g, q)}}

\* build_from_extractions that merges the extractions one after the other:
\* the calls and imports of an extraction are resolved against the files
\* and symbols inserted so far.
RECURSIVE build_each_in_turn(_, _)
build_each_in_turn(g, batch) ==
    IF batch = <<>> THEN g
    ELSE LET one == <<Head(batch)>>
             g1 == InsertSymbols(InsertFiles(g, one), one)
             g2 == [g1 EXCEPT !.edges =
                      @ \cup ResolvedCalls(g1, one) \cup ResolvedImports(g1, one)]
         IN build_each_in_turn(g2, Tail(batch))

\* build_from_extractions(batch): files, then symbols and Defines, then
\* Calls, then Imports.
build_from_extractions(g, batch) ==
    LET g1 == InsertSymbols(InsertFiles(g, batch), batch)
    IN [g1 EXCEPT !.edges =
            @ \cup ResolvedCalls(g1, batch) \cup ResolvedImports(g1, batch)]

\* stats() that counts every node and every edge, tombstoned or not.
stats_with_tombstones(g) ==
    [file_count |->
        Cardinality({i \in NodeIds(g) : g.nodes[i].kind = "File"}),
     symbol_count |->
        Cardinality({i \in NodeIds(g) : g.nodes[i].kind # "File"}),
     total_edges |-> Cardinality(g.edges)]

\* stats(): counts over the visible nodes and edges.
stats(g) ==
    [file_count |->
        Cardinality({i \in NodeIds(g) :
                        IsVisible(g, i) /\ g.nodes[i].kind = "File"}),
     symbol_count |->
        Cardinality({i \in NodeIds(g) :
                        IsVisible(g, i) /\ g.nodes[i].kind # "File"}),
     total_edges |-> Cardinality(VisibleEdges(g))]

\* symbols_in_file(path): the non-tombstoned symbols owned by the file.
symbols_in_file(g, path) ==
    {i \in NodeIds(g) : /\ IsVisible(g, i)
                        /\ g.nodes[i].kind # "File"
                        /\ g.nodes[i].file_path = path}

\* Substring test on the model's strings: a string contains itself and the
\* empty string, and every path contains "src/".
NameContains(name, query) ==
    query = "" \/ name = query \/ (query = "src/" /\ name \in Paths)

\* search(query, limit) before the limit is applied: the visible symbols
\* whose name contains the query.
SearchMatches(g, query) ==
    {i \in NodeIds(g) : /\ IsVisible(g, i)
                        /\ g.nodes[i].kind # "File"
                        /\ NameContains(g.nodes[i].name, query)}

\* dependencies(name): callees of every visible symbol of that name.
dependencies(g, name) ==
    {e.dst : e \in {x \in VisibleEdges(g) :
                      x.kind = "Calls" /\ g.nodes[x.src].name = name}}

\* dependents(name): callers of that name, plus importers of a file of
\* that name.
dependents(g, name) ==
    {e.src : e \in {x \in VisibleEdges(g) :
                      /\ x.kind \in {"Calls", "Imports"}
                      /\ g.nodes[x.dst].name = name}}

\* The calls list search reports with a symbol.
CallsOf(g, i) ==
    {e.dst : e \in {x \in VisibleEdges(g) : x.kind = "Calls" /\ x.src = i}}

\* Lexicographic order of the model's paths.
PathRank(path) == IF path = "src/a.rs" THEN 1 ELSE 2

\* search(query, limit): the first `limit` matches, ties broken by file
\* path and then by position; each result is (symbol, file, names called).
RECURSIVE TakeFirst(_, _, _)
TakeFirst(g, ids, limit) ==
    IF ids = {} \/ limit = 0 THEN <<>>
    ELSE LET key(i) == <<PathRank(g.nodes[i].file_path), i>>
             first == CHOOSE i \in ids : \A j \in ids :
                        \/ key(i)[1] < key(j)[1]
                        \/ key(i)[1] = key(j)[1] /\ key(i)[2] <= key(j)[2]
         IN <<first>> \o TakeFirst(g, ids \ {first}, limit - 1)

SearchResult(g, i) ==
    [symbol |-> g.nodes[i].name, file |-> g.nodes[i].file_path,
     calls |-> {g.nodes[j].name : j \in CallsOf(g, i)}]

search(g, query, limit) ==
    LET ids == TakeFirst(g, SearchMatches(g, query), limit)
    IN [k \in 1..Len(ids) |-> SearchResult(g, ids[k])]

\* search_graph(query, depth): BFS from the matches over visible edges of
\* any kind, in both directions.
RECURSIVE Bfs(_, _, _)
Bfs(g, seen, depth) ==
    IF depth = 0 THEN seen
    ELSE Bfs(g,
             seen \cup {e.dst : e \in {x \in VisibleEdges(g) : x.src \in seen}}
                  \cup {e.src : e \in {x \in VisibleEdges(g) : x.dst \in seen}},
             depth - 1)

search_graph(g, query, depth) ==
    LET seeds == {i \in NodeIds(g) :
                    IsVisible(g, i) /\ NameContains(g.nodes[i].name, query)}
        reached == Bfs(g, seeds, depth)
    IN [matched_files |-> {g.nodes[i].file_path : i \in seeds},
        symbols |-> {i \in reached : g.nodes[i].kind # "File"},
        connections |-> {e \in VisibleEdges(g) :
                            e.src \in reached /\ e.dst \in reached}]

(***************************************************************************)
(* Builder (graph/builder.rs)                                              *)
(***************************************************************************)
\* All orderings of a set as sequences.
Perms(S) ==
    {q \in [1..Cardinality(S) -> S] :
        \A i, j \in 1..Cardinality(S) : i # j => q[i] # q[j]}

\* Phase 1 and 2 of build_graph: the files of the tree that are read and
\* extracted successfully; failures are dropped.
Extractable(tree) == {p \in Paths : tree[p].exists /\ tree[p].ok}

\* build_graph that gives up, with an empty graph, when a file fails.
build_graph_fatal(tree) ==
    IF \E p \in Paths : tree[p].exists /\ ~tree[p].ok
    THEN {NewGraph}
    ELSE {build_from_extractions(NewGraph,
            [k \in 1..Len(order) |-> extract_file(order[k], tree[order[k]])]) :
            order \in Perms(Extractable(tree))}

\* build_graph(root): the extractions are pushed in the order the parallel
\* tasks finish, so every order is possible.
build_graph(tree) ==
    {build_from_extractions(NewGraph,
        [k \in 1..Len(order) |-> extract_file(order[k], tree[order[k]])]) :
        order \in Perms(Extractable(tree))}

\* rebuild_file(graph, file_path): remove_file first, then read, extract
\* and re-add; an Err of the read or of the extraction returns after the
\* removal.
rebuild_file(g, path, tree) ==
    LET g1 == remove_file(g, path)
    IN IF ~tree[path].exists \/ ~tree[path].ok
       THEN [graph |-> g1, ok |-> FALSE]
       ELSE [graph |-> build_from_extractions(g1,
                          <<extract_file(path, tree[path])>>),
             ok |-> TRUE]

(***************************************************************************)
(* Persistence (graph/persistence.rs)                                      *)
(***************************************************************************)
\* to_serializable(): the nodes in index order, the edges by position.
to_serializable(g) ==
    [nodes |-> g.nodes,
     edges |-> {<<e.src, e.dst, e.kind>> : e \in g.edges}]

\* bincode::serialize(&sg): the nodes vector, then the edges vector.
serialize(sg) == <<sg.nodes, sg.edges>>

\* bincode::deserialize(&bytes): fails on bytes that end early.
deserialize(bytes) ==
    IF Len(bytes) = 2
    THEN [ok |-> TRUE, sg |-> [nodes |-> bytes[1], edges |-> bytes[2]]]
    ELSE [ok |-> FALSE]

\* The node loop of from_serializable: add_file or add_symbol, then the
\* removed bit is set on the node that came back; index_map collects the
\* ids.
RECURSIVE LoadNodes(_, _, _)
LoadNodes(g, index_map, nodes) ==
    IF nodes = <<>> THEN [graph |-> g, index_map |-> index_map]
    ELSE LET node == Head(nodes)
             g1 == IF node.kind = "File" THEN add_file(g, node.file_path)
                   ELSE add_symbol(g, node.name, node.file_path)
             idx == IF node.kind = "File" THEN FileIdOf(g1, node.file_path)
                    ELSE Len(g1.nodes)
             g2 == IF node.removed
                   THEN [g1 EXCEPT !.nodes[idx].removed = TRUE]
                   ELSE g1
         IN LoadNodes(g2, Append(index_map, idx), Tail(nodes))

\* from_serializable with the endpoints of every edge exchanged.
from_serializable_swapped(sg) ==
    LET r == LoadNodes(NewGraph, <<>>, sg.nodes)
    IN [r.graph EXCEPT !.edges =
          {[src |-> r.index_map[e[2]], dst |-> r.index_map[e[1]],
            kind |-> e[3]] : e \in sg.edges}]

\* from_serializable without the restoring of the removed bit.
from_serializable_live(sg) ==
    LET live == [k \in 1..Len(sg.nodes) |->
                    [sg.nodes[k] EXCEPT !.removed = FALSE]]
        r == LoadNodes(NewGraph, <<>>, live)
    IN [r.graph EXCEPT !.edges =
          {[src |-> r.index_map[e[1]], dst |-> r.index_map[e[2]],
            kind |-> e[3]] : e \in sg.edges}]

\* from_serializable(sg)
from_serializable(sg) ==
    LET r == LoadNodes(NewGraph, <<>>, sg.nodes)
    IN [r.graph EXCEPT !.edges =
          {[src |-> r.index_map[e[1]], dst |-> r.index_map[e[2]],
            kind |-> e[3]] : e \in sg.edges}]

(***************************************************************************)
(* Watcher (watcher/mod.rs)                                                *)
(***************************************************************************)
\* One path of the batch, DebouncedEventKind::Any: rebuild_file when the
\* path exists (an Err is only logged), remove_file when it does not.
ApplyEvent(g, path, tree) ==
    IF tree[path].exists THEN rebuild_file(g, path, tree).graph
    ELSE remove_file(g, path)

\* The loop of handle_events over the deduplicated paths, in the order the
\* HashMap iterates them.
RECURSIVE ApplyEvents(_, _, _)
ApplyEvents(g, order, tree) ==
    IF order = <<>> THEN g
    ELSE ApplyEvents(ApplyEvent(g, Head(order), tree), Tail(order), tree)

(***************************************************************************)
(* The visible graph, up to node ids                                       *)
(***************************************************************************)
NodeKey(g, i) == <<g.nodes[i].kind, g.nodes[i].name, g.nodes[i].file_path>>

View(g) ==
    [nodes |-> {NodeKey(g, i) : i \in {j \in NodeIds(g) : IsVisible(g, j)}},
     edges |-> {<<e.kind, NodeKey(g, e.src), NodeKey(g, e.dst)>> :
                  e \in VisibleEdges(g)}]

(***************************************************************************)
(* State                                                                   *)
(***************************************************************************)
Daemons == {1, 2}
Conns == 1..MaxConns

VARIABLES
    tree,       \* the source tree: path -> content or Absent
    graph,      \* the CodeGraph a watcher updates (library use, no daemon)
    pending,    \* paths with a file event not yet delivered to the watcher
    ops,        \* number of file-system changes still to come
    disk,       \* graph.bin: NoFile, or the saved bytes (and what was saved)
    loaded,     \* the result of the last CodeGraph::load, or NoGraph
    gone,       \* paths whose last graph operation was remove_file
    upd,        \* per path, what the last watcher batch did to it
    dpc,        \* per daemon, the position of start_daemon
    sockFile,   \* .anchor/anchor.sock: 0, or the daemon whose listener it names
    pidFile,    \* .anchor/daemon.pid: 0, or the daemon whose pid it holds
    backlog,    \* per daemon, the connections waiting at its listener
    cur,        \* per daemon, the stream accept has just returned (0: none)
    shutdown,   \* per daemon, the shutdown flag
    dgraph,     \* per daemon, the graph behind the RwLock
    watching,   \* per daemon, whether its WatcherHandle is alive
    lock,       \* per daemon, the RwLock: reading handlers and the writer
    hpc,        \* per connection, the position of its client and handler
    creq,       \* per connection, the request line the client sent
    cresp,      \* per connection, the response frames written to it
    cdaemon,    \* per connection, the daemon it is connected to
    hbuf,       \* per connection, the handler's local values
    tmp,        \* graph.tmp: NoFile, or what a save in progress has written
    spc,        \* the save in progress: its position and its local values
    cli,        \* the last run of the command line in local mode
    ctx,        \* the last context request and the frame it was answered with
    sig,        \* the last pair of signatures parsed and their diff
    call,       \* the last call of a function of the parser or the query
                \* layer that is followed on its own: its input and result
    poisoned,   \* per daemon, whether the graph lock is poisoned
    wpc,        \* the watcher thread's position in handle_events and the
                \* paths of its batch it has still to apply
    flock       \* the file locks of the LockManager: path -> holder (0: free)

gvars == <<tree, graph, pending, ops, disk, loaded, gone, upd>>
dvars == <<dpc, sockFile, pidFile, backlog, cur, shutdown, dgraph, watching,
           lock>>
cvars == <<hpc, creq, cresp, cdaemon, hbuf>>
pvars == <<tmp, spc>>
qvars == <<ctx, sig, call>>
wvars == <<wpc, flock>>
fvars == <<cli, qvars, wvars>>
vars == <<gvars, dvars, cvars, pvars, fvars, poisoned>>

NoFile == [present |-> FALSE]
NoGraph == [present |-> FALSE]
NoUpdate == [kind |-> "none"]

\* What a watcher update of one path did: the path's visible symbol ids
\* before and after, and the outcome of the read and extraction.
UpdateRecord(g, path, tr) ==
    LET after == ApplyEvent(g, path, tr)
    IN [kind |-> IF tr[path].exists THEN "rebuild" ELSE "remove",
        ok |-> tr[path].exists /\ tr[path].ok,
        before |-> symbols_in_file(g, path),
        after |-> symbols_in_file(after, path),
        names |-> {after.nodes[i].name : i \in symbols_in_file(after, path)},
        want |-> IF tr[path].exists /\ tr[path].ok
                 THEN {tr[path].symbols[k] : k \in 1..Len(tr[path].symbols)}
                 ELSE {}]

RECURSIVE UpdateRecords(_, _, _, _)
UpdateRecords(u, g, order, tr) ==
    IF order = <<>> THEN u
    ELSE UpdateRecords([u EXCEPT ![Head(order)] =
                            UpdateRecord(g, Head(order), tr)],
                       ApplyEvent(g, Head(order), tr), Tail(order), tr)

NoBuf == [kind |-> "none"]
NoSave == [pc |-> "idle"]
NoRun == [status |-> "none"]
NoContext == [status |-> "none"]
NoDiff == [status |-> "none"]
NoCall == [status |-> "none"]
NoBatch == [pc |-> "idle", todo |-> <<>>]
Unlocked == [readers |-> {}, writer |-> 0]

\* No daemon has been started and no client has connected.
InitIdle ==
    /\ dpc = [d \in Daemons |-> "off"]
    /\ sockFile = 0
    /\ pidFile = 0
    /\ backlog = [d \in Daemons |-> <<>>]
    /\ cur = [d \in Daemons |-> 0]
    /\ shutdown = [d \in Daemons |-> FALSE]
    /\ dgraph = [d \in Daemons |-> NewGraph]
    /\ lock = [d \in Daemons |-> Unlocked]
    /\ hpc = [c \in Conns |-> "new"]
    /\ creq = [c \in Conns |-> "none"]
    /\ cresp = [c \in Conns |-> <<>>]
    /\ cdaemon = [c \in Conns |-> 0]
    /\ hbuf = [c \in Conns |-> NoBuf]
    /\ tmp = NoFile
    /\ spc = NoSave
    /\ cli = NoRun
    /\ ctx = NoContext
    /\ sig = NoDiff
    /\ call = NoCall
    /\ wpc = NoBatch
    /\ flock = [p \in Paths |-> 0]
    /\ poisoned = [d \in Daemons |-> FALSE]

\* The tree of two files: src/b.rs calls and imports src/a.rs.
InitTree == [p \in Paths |-> IF p = "src/a.rs" THEN cHelper ELSE cMain]

\* A graph of a full build with a watcher started on it (start_watching
\* called by a library user).
InitBuilt ==
    /\ InitIdle
    /\ watching = [d \in Daemons |-> d = 1]
    /\ tree \in Trees
    /\ graph \in build_graph(tree)
    /\ pending = {}
    /\ disk = NoFile
    /\ loaded = NoGraph
    /\ gone = {}
    /\ upd = [p \in Paths |-> NoUpdate]

InitGraph == InitBuilt /\ ops = MaxOps

InitPersist == InitBuilt /\ ops = MaxPersistOps

\* Events are queued only while a watcher is subscribed.
Watched == \E d \in Daemons : watching[d]

\* A file is created or modified; the notify backend queues an event.
FsWrite(p, c) ==
    /\ ops > 0
    /\ tree' = [tree EXCEPT ![p] = c]
    /\ pending' = IF Watched THEN pending \cup {p} ELSE pending
    /\ ops' = ops - 1
    /\ UNCHANGED <<pvars, fvars, poisoned, graph, disk, loaded, gone, upd, dvars, cvars>>

\* A file is deleted.
FsDelete(p) ==
    /\ ops > 0
    /\ tree[p].exists
    /\ tree' = [tree EXCEPT ![p] = Absent]
    /\ pending' = IF Watched THEN pending \cup {p} ELSE pending
    /\ ops' = ops - 1
    /\ UNCHANGED <<pvars, fvars, poisoned, graph, disk, loaded, gone, upd, dvars, cvars>>

\* handle_events on the debounced batch of all pending paths.
HandleEvents(order) ==
    /\ pending # {}
    /\ graph' = ApplyEvents(graph, order, tree)
    /\ pending' = {}
    /\ gone' = (gone \ pending)
                 \cup {p \in pending : ~(tree[p].exists /\ tree[p].ok)}
    /\ upd' = UpdateRecords([p \in Paths |-> NoUpdate], graph, order, tree)
    /\ UNCHANGED <<pvars, fvars, poisoned, tree, ops, disk, loaded, dvars, cvars>>

\* graph.save(path) that runs to its end.
Save ==
    /\ disk' = [present |-> TRUE, bytes |-> serialize(to_serializable(graph)),
                synced |-> TRUE, of |-> graph, gone |-> gone]
    /\ UNCHANGED <<pvars, fvars, poisoned, tree, graph, pending, ops, loaded, gone, upd, dvars, cvars>>

\* CodeGraph::load(path) of an existing file.
Load ==
    /\ disk.present
    /\ deserialize(disk.bytes).ok
    /\ loaded' = [present |-> TRUE,
                  graph |-> from_serializable(deserialize(disk.bytes).sg),
                  of |-> disk.of, gone |-> disk.gone]
    /\ UNCHANGED <<pvars, fvars, poisoned, tree, graph, pending, ops, disk, gone, upd, dvars, cvars>>

NextGraph ==
    \/ \E p \in Paths : \E c \in Contents : FsWrite(p, c)
    \/ \E p \in Paths : FsDelete(p)
    \/ \E order \in Perms(pending) : HandleEvents(order)

SpecGraph == InitGraph /\ [][NextGraph]_vars

NextPersist ==
    \/ \E p \in Paths : \E c \in Contents : FsWrite(p, c)
    \/ \E p \in Paths : FsDelete(p)
    \/ \E order \in Perms(pending) : HandleEvents(order)
    \/ Save
    \/ Load

SpecPersist == InitPersist /\ [][NextPersist]_vars

(***************************************************************************)
(* save(path), statement by statement (graph/persistence.rs)               *)
(***************************************************************************)
\* to_serializable and bincode::serialize; prev is the file at path when
\* save was called.
SaveSerialize ==
    /\ spc.pc = "idle"
    /\ spc' = [pc |-> "serialized",
               bytes |-> serialize(to_serializable(graph)),
               of |-> graph, gone |-> gone, prev |-> disk]
    /\ UNCHANGED <<fvars, poisoned, gvars, dvars, cvars, tmp>>

\* File::create(&tmp_path): creates or truncates graph.tmp.
SaveCreate ==
    /\ spc.pc = "serialized"
    /\ tmp' = [present |-> TRUE, bytes |-> <<>>, synced |-> FALSE,
               of |-> spc.of, gone |-> spc.gone]
    /\ spc' = [spc EXCEPT !.pc = "created"]
    /\ UNCHANGED <<fvars, poisoned, gvars, dvars, cvars>>

\* file.write_all(&bytes): one write of its loop.
SaveWrite ==
    /\ spc.pc = "created"
    /\ tmp' = [tmp EXCEPT !.bytes = Append(@, spc.bytes[Len(@) + 1])]
    /\ spc' = [spc EXCEPT !.pc = IF Len(tmp.bytes) + 1 = Len(spc.bytes)
                                 THEN "written" ELSE "created"]
    /\ UNCHANGED <<fvars, poisoned, gvars, dvars, cvars>>

\* file.sync_all()
SaveSync ==
    /\ spc.pc = "written"
    /\ tmp' = [tmp EXCEPT !.synced = TRUE]
    /\ spc' = [spc EXCEPT !.pc = "synced"]
    /\ UNCHANGED <<fvars, poisoned, gvars, dvars, cvars>>

\* A rename issued as soon as graph.tmp exists.
RenameReadyEarly == spc.pc \in {"created", "written", "synced"}

\* The rename is the statement after sync_all.
RenameReady == spc.pc = "synced"

\* fs::rename(&tmp_path, path), and save returns.
SaveRename ==
    /\ RenameReady
    /\ disk' = tmp
    /\ tmp' = NoFile
    /\ spc' = NoSave
    /\ UNCHANGED <<fvars, poisoned, tree, graph, pending, ops, loaded, gone, upd, dvars,
                   cvars>>

\* The process stops inside save, or a statement of save returns an Err:
\* the files stay as they are.
SaveStop ==
    /\ spc.pc # "idle"
    /\ spc' = NoSave
    /\ UNCHANGED <<fvars, poisoned, gvars, dvars, cvars, tmp>>

\* The graph of a full build of the tree of two files.
InitSave ==
    /\ InitBuilt
    /\ tree = InitTree
    /\ ops = MaxSaveOps

NextSave ==
    \/ \E p \in Paths : \E c \in Contents : FsWrite(p, c)
    \/ \E p \in Paths : FsDelete(p)
    \/ \E order \in Perms(pending) : HandleEvents(order)
    \/ SaveSerialize
    \/ SaveCreate
    \/ SaveWrite
    \/ SaveSync
    \/ SaveRename
    \/ SaveStop

SpecSave == InitSave /\ [][NextSave]_vars

(***************************************************************************)
(* Command line, local mode (bin/cli.rs)                                   *)
(***************************************************************************)
\* CodeGraph::load(path): fs::read, bincode::deserialize, from_serializable.
load(f) ==
    IF ~f.present THEN [ok |-> FALSE, error |-> "io"]
    ELSE IF ~deserialize(f.bytes).ok
         THEN [ok |-> FALSE, error |-> "ParseError"]
         ELSE [ok |-> TRUE,
               graph |-> from_serializable(deserialize(f.bytes).sg)]

\* The commands of local mode that the model runs.
CliCommands == {"stats", "search"}

\* What stats_cli_mode and search_cli_mode (query "main", depth 0) print.
CliOutput(cmd, g) ==
    IF cmd = "stats" THEN stats(g)
    ELSE LET r == search_graph(g, "main", 0)
         IN [files |-> r.matched_files,
             symbols |-> {<<g.nodes[i].name, g.nodes[i].file_path>> :
                            i \in r.symbols}]

\* What graph.bin is to a run: missing, not deserializable, or valid.
CacheState(f) ==
    IF ~f.present THEN "missing"
    ELSE IF ~deserialize(f.bytes).ok THEN "corrupt" ELSE "valid"

\* run(cli) for a command other than build: load graph.bin if it exists
\* (an Err of load is returned by `?`), else build the graph and save it;
\* then the command prints its answer.
CliRun(cmd) ==
    IF disk.present
    THEN /\ cli' = IF load(disk).ok
                   THEN [status |-> "answered", cmd |-> cmd,
                         cache |-> CacheState(disk),
                         out |-> CliOutput(cmd, load(disk).graph)]
                   ELSE [status |-> "failed", cmd |-> cmd,
                         cache |-> CacheState(disk),
                         error |-> load(disk).error]
         /\ UNCHANGED <<gvars, dvars, cvars, pvars, qvars, wvars, poisoned>>
    ELSE /\ \E g \in build_graph(tree) :
              /\ disk' = [present |-> TRUE,
                          bytes |-> serialize(to_serializable(g)),
                          synced |-> TRUE, of |-> g, gone |-> {}]
              /\ cli' = [status |-> "answered", cmd |-> cmd,
                         cache |-> CacheState(disk),
                         out |-> CliOutput(cmd, g)]
         /\ UNCHANGED <<tree, graph, pending, ops, loaded, gone, upd, dvars,
                        cvars, pvars, qvars, wvars, poisoned>>

\* graph.bin is replaced by bytes that do not deserialize (written by
\* another format version, or cut short).
CacheDamaged(k) ==
    /\ disk.present
    /\ k < Len(disk.bytes)
    /\ disk' = [disk EXCEPT !.bytes = SubSeq(@, 1, k)]
    /\ UNCHANGED <<tree, graph, pending, ops, loaded, gone, upd, dvars,
                   cvars, pvars, fvars, poisoned>>

\* graph.bin is deleted.
CacheRemoved ==
    /\ disk.present
    /\ disk' = NoFile
    /\ UNCHANGED <<tree, graph, pending, ops, loaded, gone, upd, dvars,
                   cvars, pvars, fvars, poisoned>>

InitCli == InitBuilt /\ ops = 0

NextCli ==
    \/ \E cmd \in CliCommands : CliRun(cmd)
    \/ \E k \in 0..1 : CacheDamaged(k)
    \/ CacheRemoved

SpecCli == InitCli /\ [][NextCli]_vars

(***************************************************************************)
(* Daemon (daemon/server.rs, daemon/protocol.rs)                           *)
(***************************************************************************)
\* The commands of the Request enum that the model serves.
Commands == {"ping", "shutdown", "stats", "overview", "rebuild"}
ReadCommands == {"stats", "overview"}
\* Requests that call into the query layer or the LockManager under the
\* read guard: Context { query: "helper", intent: "change" } and
\* Create { path: "src/a.rs", content }.
GuardedCommands == {"context", "create"}
\* Request lines that are not a Request: broken JSON, and a well-formed
\* object whose command tag names no variant.
Undecodable == {"{not json", "frobnicate"}
Lines == Commands \cup Undecodable

\* serde_json::from_str::<Request>(&line)
Decode(line) ==
    IF line \in Commands \cup GuardedCommands THEN [ok |-> TRUE, request |-> line]
    ELSE [ok |-> FALSE]

\* The Response enum.
Pong == [status |-> "pong"]
Goodbye == [status |-> "goodbye"]
Ok(data) == [status |-> "ok", data |-> data]
Error(message) == [status |-> "error", message |-> message]

\* The entry_points of an overview: the symbols named "main" among the
\* symbols of graph_search(g, "main", 0).
EntryPoints(g) ==
    {<<g.nodes[i].name, g.nodes[i].file_path>> :
        i \in {j \in search_graph(g, "main", 0).symbols :
                 g.nodes[j].name = "main"}}

\* The data of an overview that has the stats st and whose two searches ran
\* on g.
OverviewData(st, g) ==
    [stats |-> st,
     files |-> search_graph(g, "src/", 0).matched_files,
     entry_points |-> EntryPoints(g)]

\* What a read request answers when it is computed from the graph g alone.
ReadResponse(request, g) ==
    IF request = "stats" THEN Ok(stats(g))
    ELSE Ok(OverviewData(stats(g), g))

Daemon(c) == cdaemon[c]

\* start_daemon is called: canonicalize and create_dir_all.
StartDaemon(d) ==
    /\ dpc[d] = "off"
    /\ dpc' = [dpc EXCEPT ![d] = "rm_sock"]
    /\ UNCHANGED <<pvars, fvars, poisoned, gvars, sockFile, pidFile, backlog, cur, shutdown, dgraph,
                   watching, lock, cvars>>

\* if sock_path.exists() { remove_file(&sock_path) }
RemoveStaleSocket(d) ==
    /\ dpc[d] = "rm_sock"
    /\ sockFile' = 0
    /\ dpc' = [dpc EXCEPT ![d] = "write_pid"]
    /\ UNCHANGED <<pvars, fvars, poisoned, gvars, pidFile, backlog, cur, shutdown, dgraph, watching,
                   lock, cvars>>

\* fs::write(&pid_file, process::id())
WritePid(d) ==
    /\ dpc[d] = "write_pid"
    /\ pidFile' = d
    /\ dpc' = [dpc EXCEPT ![d] = "build"]
    /\ UNCHANGED <<pvars, fvars, poisoned, gvars, sockFile, backlog, cur, shutdown, dgraph, watching,
                   lock, cvars>>

\* let graph = Arc::new(RwLock::new(build_graph(&root)))
InitialBuild(d) ==
    /\ dpc[d] = "build"
    /\ \E g \in build_graph(tree) : dgraph' = [dgraph EXCEPT ![d] = g]
    /\ dpc' = [dpc EXCEPT ![d] = "watch"]
    /\ UNCHANGED <<pvars, fvars, poisoned, gvars, sockFile, pidFile, backlog, cur, shutdown, watching,
                   lock, cvars>>

\* start_watching(&root, graph, 200)
StartWatcher(d) ==
    /\ dpc[d] = "watch"
    /\ watching' = [watching EXCEPT ![d] = TRUE]
    /\ dpc' = [dpc EXCEPT ![d] = "bind"]
    /\ UNCHANGED <<pvars, fvars, poisoned, gvars, sockFile, pidFile, backlog, cur, shutdown, dgraph,
                   lock, cvars>>

\* UnixListener::bind(&sock_path)?: fails when the path exists, and then
\* start_daemon returns the error and the watcher handle is dropped.
Bind(d) ==
    /\ dpc[d] = "bind"
    /\ IF sockFile = 0
       THEN /\ sockFile' = d
            /\ dpc' = [dpc EXCEPT ![d] = "accept"]
            /\ UNCHANGED watching
       ELSE /\ dpc' = [dpc EXCEPT ![d] = "failed"]
            /\ watching' = [watching EXCEPT ![d] = FALSE]
            /\ UNCHANGED sockFile
    /\ UNCHANGED <<pvars, fvars, poisoned, gvars, pidFile, backlog, cur, shutdown, dgraph, lock,
                   cvars>>

\* A client connects to the socket path and sends its request line. The
\* connection waits at the listener the path names.
Connect(c, line) ==
    /\ hpc[c] = "new"
    /\ \A b \in Conns : b < c => hpc[b] # "new"
    /\ sockFile \in Daemons
    /\ dpc[sockFile] \in {"accept", "got", "cleanup"}
    /\ hpc' = [hpc EXCEPT ![c] = "queued"]
    /\ creq' = [creq EXCEPT ![c] = line]
    /\ cdaemon' = [cdaemon EXCEPT ![c] = sockFile]
    /\ backlog' = [backlog EXCEPT ![sockFile] = Append(@, c)]
    /\ UNCHANGED <<pvars, fvars, poisoned, gvars, dpc, sockFile, pidFile, cur, shutdown, dgraph,
                   watching, lock, cresp, hbuf>>

\* listener.incoming() yields the next stream; it blocks while no
\* connection is waiting.
Accept(d) ==
    /\ dpc[d] = "accept"
    /\ backlog[d] # <<>>
    /\ cur' = [cur EXCEPT ![d] = Head(backlog[d])]
    /\ backlog' = [backlog EXCEPT ![d] = Tail(@)]
    /\ hpc' = [hpc EXCEPT ![Head(backlog[d])] = "taken"]
    /\ dpc' = [dpc EXCEPT ![d] = "got"]
    /\ UNCHANGED <<pvars, fvars, poisoned, gvars, sockFile, pidFile, shutdown, dgraph, watching, lock,
                   creq, cresp, cdaemon, hbuf>>

\* The body of the accept loop: break when the flag is set, which drops
\* the stream just yielded; otherwise spawn handle_client on it.
CheckShutdown(d) ==
    /\ dpc[d] = "got"
    /\ IF shutdown[d]
       THEN /\ hpc' = [hpc EXCEPT ![cur[d]] = "discarded"]
            /\ dpc' = [dpc EXCEPT ![d] = "cleanup"]
       ELSE /\ hpc' = [hpc EXCEPT ![cur[d]] = "spawned"]
            /\ dpc' = [dpc EXCEPT ![d] = "accept"]
    /\ cur' = [cur EXCEPT ![d] = 0]
    /\ UNCHANGED <<pvars, fvars, poisoned, gvars, sockFile, pidFile, backlog, shutdown, dgraph,
                   watching, lock, creq, cresp, cdaemon, hbuf>>

\* After the loop: remove the socket file and the pid file and return; the
\* listener and the watcher handle are dropped, connections still waiting
\* at the listener are reset.
Cleanup(d) ==
    /\ dpc[d] = "cleanup"
    /\ sockFile' = 0
    /\ pidFile' = 0
    /\ hpc' = [c \in Conns |->
                IF \E k \in 1..Len(backlog[d]) : backlog[d][k] = c
                THEN "reset" ELSE hpc[c]]
    /\ backlog' = [backlog EXCEPT ![d] = <<>>]
    /\ watching' = [watching EXCEPT ![d] = FALSE]
    /\ dpc' = [dpc EXCEPT ![d] = "exited"]
    /\ UNCHANGED <<pvars, fvars, poisoned, gvars, cur, shutdown, dgraph, lock, creq, cresp,
                   cdaemon, hbuf>>

\* handle_client up to the decoding: read_line, then from_str(&line)?,
\* whose Err returns from handle_client and drops the stream.
ReadRequest(c) ==
    /\ hpc[c] = "spawned"
    /\ hpc' = [hpc EXCEPT ![c] = IF Decode(creq[c]).ok THEN "process"
                                 ELSE "closed"]
    /\ UNCHANGED <<pvars, fvars, poisoned, gvars, dvars, creq, cresp, cdaemon, hbuf>>

\* Request::Ping that would ask for the read guard first.
PingUnderReadGuard(c) ==
    /\ hpc[c] = "process"
    /\ Decode(creq[c]).request = "ping"
    /\ lock[Daemon(c)].writer = 0
    /\ ~poisoned[Daemon(c)]
    /\ hbuf' = [hbuf EXCEPT ![c] = Pong]
    /\ hpc' = [hpc EXCEPT ![c] = "respond"]
    /\ UNCHANGED <<pvars, fvars, poisoned, gvars, dvars, creq, cresp, cdaemon>>

\* Request::Ping
Ping(c) ==
    /\ hpc[c] = "process"
    /\ Decode(creq[c]).request = "ping"
    /\ hbuf' = [hbuf EXCEPT ![c] = Pong]
    /\ hpc' = [hpc EXCEPT ![c] = "respond"]
    /\ UNCHANGED <<pvars, fvars, poisoned, gvars, dvars, creq, cresp, cdaemon>>

\* Request::Shutdown
Shutdown(c) ==
    /\ hpc[c] = "process"
    /\ Decode(creq[c]).request = "shutdown"
    /\ shutdown' = [shutdown EXCEPT ![Daemon(c)] = TRUE]
    /\ hbuf' = [hbuf EXCEPT ![c] = Goodbye]
    /\ hpc' = [hpc EXCEPT ![c] = "respond"]
    /\ UNCHANGED <<pvars, fvars, poisoned, gvars, dpc, sockFile, pidFile, backlog, cur, dgraph,
                   watching, lock, creq, cresp, cdaemon>>

\* graph.read() of a read request: waits while a writer holds the lock.
ReadLock(c) ==
    /\ hpc[c] = "process"
    /\ Decode(creq[c]).request \in ReadCommands
    /\ lock[Daemon(c)].writer = 0
    /\ ~poisoned[Daemon(c)]
    /\ lock' = [lock EXCEPT ![Daemon(c)].readers = @ \cup {c}]
    /\ hpc' = [hpc EXCEPT ![c] = "rlocked"]
    /\ UNCHANGED <<pvars, fvars, poisoned, gvars, dpc, sockFile, pidFile, backlog, cur, shutdown,
                   dgraph, watching, creq, cresp, cdaemon, hbuf>>

\* Request::Stats under the read guard.
Stats(c) ==
    /\ hpc[c] = "rlocked"
    /\ creq[c] = "stats"
    /\ hbuf' = [hbuf EXCEPT ![c] = Ok(stats(dgraph[Daemon(c)]))]
    /\ hpc' = [hpc EXCEPT ![c] = "answered"]
    /\ UNCHANGED <<pvars, fvars, poisoned, gvars, dvars, creq, cresp, cdaemon>>

\* Request::Overview, first statement: let stats = g.stats()
OverviewStats(c) ==
    /\ hpc[c] = "rlocked"
    /\ creq[c] = "overview"
    /\ hbuf' = [hbuf EXCEPT ![c] = [status |-> "partial",
                                    stats |-> stats(dgraph[Daemon(c)])]]
    /\ hpc' = [hpc EXCEPT ![c] = "rlocked2"]
    /\ UNCHANGED <<pvars, fvars, poisoned, gvars, dvars, creq, cresp, cdaemon>>

\* Request::Overview, the two graph_search calls and the response.
OverviewSearch(c) ==
    /\ hpc[c] = "rlocked2"
    /\ hbuf' = [hbuf EXCEPT ![c] =
                  Ok(OverviewData(hbuf[c].stats, dgraph[Daemon(c)]))]
    /\ hpc' = [hpc EXCEPT ![c] = "answered"]
    /\ UNCHANGED <<pvars, fvars, poisoned, gvars, dvars, creq, cresp, cdaemon>>

\* The end of the arm of a read request: the read guard is dropped.
ReadUnlock(c) ==
    /\ hpc[c] = "answered"
    /\ lock' = [lock EXCEPT ![Daemon(c)].readers = @ \ {c}]
    /\ hpc' = [hpc EXCEPT ![c] = "respond"]
    /\ UNCHANGED <<pvars, fvars, poisoned, gvars, dpc, sockFile, pidFile, backlog, cur, shutdown,
                   dgraph, watching, creq, cresp, cdaemon, hbuf>>

\* Request::Rebuild that takes the write guard before it builds.
RebuildBuildLocked(c) ==
    /\ hpc[c] = "process"
    /\ Decode(creq[c]).request = "rebuild"
    /\ lock[Daemon(c)] = Unlocked
    /\ ~poisoned[Daemon(c)]
    /\ lock' = [lock EXCEPT ![Daemon(c)].writer = c]
    /\ \E g \in build_graph(tree) :
        hbuf' = [hbuf EXCEPT ![c] = [status |-> "built", new_graph |-> g]]
    /\ hpc' = [hpc EXCEPT ![c] = "built"]
    /\ UNCHANGED <<pvars, fvars, poisoned, gvars, dpc, sockFile, pidFile,
                   backlog, cur, shutdown, dgraph, watching, creq, cresp,
                   cdaemon>>

\* Request::Rebuild, first statement: build_graph(root) with no lock held.
RebuildBuild(c) ==
    /\ hpc[c] = "process"
    /\ Decode(creq[c]).request = "rebuild"
    /\ \E g \in build_graph(tree) :
        hbuf' = [hbuf EXCEPT ![c] = [status |-> "built", new_graph |-> g]]
    /\ hpc' = [hpc EXCEPT ![c] = "built"]
    /\ UNCHANGED <<pvars, fvars, poisoned, gvars, dvars, creq, cresp, cdaemon>>

\* A write lock taken without waiting for the readers to leave.
WriteLockNoWait(c) ==
    /\ lock[Daemon(c)].writer = 0
    /\ lock' = [lock EXCEPT ![Daemon(c)].writer = c]

\* graph.write(): waits until no reader and no writer holds the lock.
WriteLock(c) ==
    /\ lock[Daemon(c)] = Unlocked
    /\ ~poisoned[Daemon(c)]
    /\ lock' = [lock EXCEPT ![Daemon(c)].writer = c]

\* Request::Rebuild, graph.write()
RebuildLock(c) ==
    /\ hpc[c] = "built"
    /\ WriteLock(c)
    /\ hpc' = [hpc EXCEPT ![c] = "wlocked"]
    /\ UNCHANGED <<pvars, fvars, poisoned, gvars, dpc, sockFile, pidFile, backlog, cur, shutdown,
                   dgraph, watching, creq, cresp, cdaemon, hbuf>>

\* Request::Rebuild, *g = new_graph and the response; the guard is dropped
\* at the end of the arm.
RebuildSwap(c) ==
    /\ hpc[c] = "wlocked"
    /\ dgraph' = [dgraph EXCEPT ![Daemon(c)] = hbuf[c].new_graph]
    /\ hbuf' = [hbuf EXCEPT ![c] =
                  Ok([message |-> "graph rebuilt",
                      stats |-> stats(hbuf[c].new_graph)])]
    /\ lock' = [lock EXCEPT ![Daemon(c)].writer = 0]
    /\ hpc' = [hpc EXCEPT ![c] = "respond"]
    /\ UNCHANGED <<pvars, fvars, poisoned, gvars, dpc, sockFile, pidFile, backlog, cur, shutdown,
                   watching, creq, cresp, cdaemon>>

\* handle_client after process_request: writeln!(writer, response_json),
\* then the stream is dropped.
WriteResponse(c) ==
    /\ hpc[c] = "respond"
    /\ cresp' = [cresp EXCEPT ![c] = Append(@, hbuf[c])]
    /\ hbuf' = [hbuf EXCEPT ![c] = NoBuf]
    /\ hpc' = [hpc EXCEPT ![c] = "done"]
    /\ UNCHANGED <<pvars, fvars, poisoned, gvars, dvars, creq, cdaemon>>

\* handle_events of the daemon's watcher thread: the whole batch is applied
\* under graph.write().
WatcherBatch(d, order) ==
    /\ watching[d]
    /\ pending # {}
    /\ lock[d] = Unlocked
    /\ ~poisoned[d]
    /\ dgraph' = [dgraph EXCEPT ![d] = ApplyEvents(dgraph[d], order, tree)]
    /\ pending' = {}
    /\ UNCHANGED <<pvars, fvars, poisoned, tree, graph, ops, disk, loaded, gone, upd, dpc, sockFile,
                   pidFile, backlog, cur, shutdown, watching, lock, cvars>>

\* graph.read() that takes the guard out of the PoisonError and reads on.
ReadLockIgnoresPoison(c) ==
    /\ hpc[c] = "process"
    /\ Decode(creq[c]).request \in ReadCommands
    /\ lock[Daemon(c)].writer = 0
    /\ poisoned[Daemon(c)]
    /\ lock' = [lock EXCEPT ![Daemon(c)].readers = @ \cup {c}]
    /\ hpc' = [hpc EXCEPT ![c] = "rlocked"]
    /\ UNCHANGED <<pvars, fvars, poisoned, gvars, dpc, sockFile, pidFile,
                   backlog, cur, shutdown, dgraph, watching, creq, cresp,
                   cdaemon, hbuf>>

\* graph.read() of a read request on a poisoned lock: the Err arm returns
\* Response::error.
ReadLockPoisoned(c) ==
    /\ hpc[c] = "process"
    /\ Decode(creq[c]).request \in ReadCommands
    /\ lock[Daemon(c)].writer = 0
    /\ poisoned[Daemon(c)]
    /\ hbuf' = [hbuf EXCEPT ![c] = Error("lock error")]
    /\ hpc' = [hpc EXCEPT ![c] = "respond"]
    /\ UNCHANGED <<pvars, fvars, poisoned, gvars, dvars, creq, cresp, cdaemon>>

\* Request::Rebuild, graph.write() on a poisoned lock: the Err arm returns
\* Response::error and the graph that was built is dropped.
RebuildLockPoisoned(c) ==
    /\ hpc[c] = "built"
    /\ lock[Daemon(c)] = Unlocked
    /\ poisoned[Daemon(c)]
    /\ hbuf' = [hbuf EXCEPT ![c] = Error("lock error")]
    /\ hpc' = [hpc EXCEPT ![c] = "respond"]
    /\ UNCHANGED <<pvars, fvars, poisoned, gvars, dvars, creq, cresp, cdaemon>>

\* The handler of a rebuild panics while it holds the write guard, before
\* or after the assignment: the guard is dropped in the unwinding, which
\* poisons the lock; the thread ends and the stream is dropped.
RebuildPanic(c) ==
    /\ hpc[c] = "wlocked"
    /\ poisoned' = [poisoned EXCEPT ![Daemon(c)] = TRUE]
    /\ \E g \in {dgraph[Daemon(c)], hbuf[c].new_graph} :
          dgraph' = [dgraph EXCEPT ![Daemon(c)] = g]
    /\ lock' = [lock EXCEPT ![Daemon(c)].writer = 0]
    /\ hbuf' = [hbuf EXCEPT ![c] = NoBuf]
    /\ hpc' = [hpc EXCEPT ![c] = "closed"]
    /\ UNCHANGED <<pvars, fvars, gvars, dpc, sockFile, pidFile, backlog, cur,
                   shutdown, watching, creq, cresp, cdaemon>>

\* handle_events on a poisoned lock: graph.write() is an Err, a warning is
\* logged and the batch is dropped; the debouncer keeps running.
WatcherBatchSkipped(d) ==
    /\ watching[d]
    /\ pending # {}
    /\ lock[d] = Unlocked
    /\ poisoned[d]
    /\ pending' = {}
    /\ UNCHANGED <<pvars, fvars, poisoned, tree, graph, ops, disk, loaded,
                   gone, upd, dvars, cvars>>

InitDaemon ==
    /\ InitIdle
    /\ watching = [d \in Daemons |-> FALSE]
    /\ tree = InitTree
    /\ graph = NewGraph
    /\ pending = {}
    /\ ops = MaxDaemonOps
    /\ disk = NoFile
    /\ loaded = NoGraph
    /\ gone = {}
    /\ upd = [p \in Paths |-> NoUpdate]

\* The steps of start_daemon of daemon d up to and in the accept loop.
ServeStep(d) ==
    \/ StartDaemon(d)
    \/ RemoveStaleSocket(d)
    \/ WritePid(d)
    \/ InitialBuild(d)
    \/ StartWatcher(d)
    \/ Bind(d)
    \/ Accept(d)
    \/ CheckShutdown(d)

\* The steps of start_daemon of daemon d.
DaemonStep(d) ==
    \/ ServeStep(d)
    \/ Cleanup(d)

\* One daemon serving every command while the tree changes.
Next ==
    \/ DaemonStep(1)
    \/ \E c \in Conns : \E line \in Lines : Connect(c, line)
    \/ \E c \in Conns : ReadRequest(c)
    \/ \E c \in Conns : Ping(c)
    \/ \E c \in Conns : Shutdown(c)
    \/ \E c \in Conns : ReadLock(c)
    \/ \E c \in Conns : Stats(c)
    \/ \E c \in Conns : OverviewStats(c)
    \/ \E c \in Conns : OverviewSearch(c)
    \/ \E c \in Conns : ReadUnlock(c)
    \/ \E c \in Conns : RebuildBuild(c)
    \/ \E c \in Conns : RebuildLock(c)
    \/ \E c \in Conns : RebuildSwap(c)
    \/ \E c \in Conns : WriteResponse(c)
    \/ \E order \in Perms(pending) : WatcherBatch(1, order)
    \/ \E p \in Paths : \E c \in Contents : FsWrite(p, c)
    \/ \E p \in Paths : FsDelete(p)

Spec == InitDaemon /\ [][Next]_vars

\* One daemon serving read requests and rebuilds while the tree changes.
RebuildLines == ReadCommands \cup {"rebuild"}

NextRebuild ==
    \/ ServeStep(1)
    \/ \E c \in Conns : \E line \in RebuildLines : Connect(c, line)
    \/ \E c \in Conns : ReadRequest(c)
    \/ \E c \in Conns : ReadLock(c)
    \/ \E c \in Conns : Stats(c)
    \/ \E c \in Conns : OverviewStats(c)
    \/ \E c \in Conns : OverviewSearch(c)
    \/ \E c \in Conns : ReadUnlock(c)
    \/ \E c \in Conns : RebuildBuild(c)
    \/ \E c \in Conns : RebuildLock(c)
    \/ \E c \in Conns : RebuildSwap(c)
    \/ \E c \in Conns : WriteResponse(c)
    \/ \E order \in Perms(pending) : WatcherBatch(1, order)
    \/ \E p \in Paths : FsDelete(p)

SpecRebuild == InitDaemon /\ [][NextRebuild]_vars

\* One daemon serving stats and rebuild requests, where a rebuild may
\* panic under the write guard.
PoisonLines == {"stats", "rebuild"}

PoisonHandlerStep(c) ==
    \/ ReadRequest(c)
    \/ ReadLock(c)
    \/ ReadLockPoisoned(c)
    \/ Stats(c)
    \/ ReadUnlock(c)
    \/ RebuildBuild(c)
    \/ RebuildLock(c)
    \/ RebuildLockPoisoned(c)
    \/ RebuildSwap(c)
    \/ RebuildPanic(c)
    \/ WriteResponse(c)

WatcherStep(d) ==
    \/ \E order \in Perms(pending) : WatcherBatch(d, order)
    \/ WatcherBatchSkipped(d)

NextPoison ==
    \/ ServeStep(1)
    \/ \E c \in Conns : \E line \in PoisonLines : Connect(c, line)
    \/ \E c \in Conns : PoisonHandlerStep(c)
    \/ WatcherStep(1)
    \/ \E p \in Paths : FsDelete(p)

\* Every thread of the daemon that can take a step eventually takes one.
SpecPoison ==
    /\ InitDaemon
    /\ [][NextPoison]_vars

\* The threads of one daemon and its clients, with ping and shutdown only.
StartLines == {"ping", "shutdown"}

HandlerStep(c) ==
    \/ ReadRequest(c)
    \/ Ping(c)
    \/ Shutdown(c)
    \/ WriteResponse(c)

NextShutdown ==
    \/ DaemonStep(1)
    \/ \E c \in Conns : \E line \in StartLines : Connect(c, line)
    \/ \E c \in Conns : HandlerStep(c)

\* Every thread of the daemon that can take a step eventually takes one;
\* nothing obliges a client to connect.
SpecShutdown ==
    /\ InitDaemon
    /\ [][NextShutdown]_vars
    /\ WF_vars(DaemonStep(1))
    /\ \A c \in Conns : WF_vars(HandlerStep(c))

\* A daemon that has bound its socket and is in the accept loop.
Alive(d) == dpc[d] \in {"accept", "got"}

\* start_daemon called for a root whose daemon is alive.
NextStart ==
    \/ DaemonStep(1)
    \/ Alive(1) /\ StartDaemon(2)
    \/ dpc[2] # "off" /\ DaemonStep(2)
    \/ \E c \in Conns : \E line \in StartLines : Connect(c, line)
    \/ \E c \in Conns : HandlerStep(c)

SpecStart == InitDaemon /\ [][NextStart]_vars

(***************************************************************************)
(* The watcher thread of a daemon, statement by statement (watcher/mod.rs) *)
(***************************************************************************)
\* Number of file-system changes in one behaviour of the watcher thread
\* model.
MaxWatchOps == 1
\* Number of clients that send a request in one behaviour of the watcher
\* thread model.
MaxWatchConns == 1

\* The holder id of the watcher thread in the writer field of the lock.
WatcherThread == MaxConns + 1

\* graph.write() of the watcher thread that enters although read guards
\* are still held.
graph_write_early(d) ==
    /\ lock[d].writer = 0
    /\ ~poisoned[d]

\* graph.write() of the watcher thread: blocks until no read guard and no
\* write guard is held.
graph_write(d) ==
    /\ lock[d] = Unlocked
    /\ ~poisoned[d]

\* handle_events is called with a debounced batch: the paths are collected
\* in a HashMap, one entry per path, iterated in any order.
HandleEvents_collect(d, order) ==
    /\ watching[d]
    /\ wpc.pc = "idle"
    /\ pending # {}
    /\ wpc' = [pc |-> "batch", todo |-> order]
    /\ pending' = {}
    /\ UNCHANGED <<pvars, cli, qvars, flock, poisoned, tree, graph, ops, disk, loaded,
                   gone, upd, dvars, cvars>>

\* let mut graph = graph.write()
HandleEvents_lock(d) ==
    /\ wpc.pc = "batch"
    /\ graph_write(d)
    /\ lock' = [lock EXCEPT ![d].writer = WatcherThread]
    /\ wpc' = [wpc EXCEPT !.pc = "locked"]
    /\ UNCHANGED <<pvars, cli, qvars, flock, poisoned, gvars, dpc, sockFile, pidFile,
                   backlog, cur, shutdown, dgraph, watching, cvars>>

\* The top of the loop over the paths, under the write guard:
\* path.exists(), then either the first statement of rebuild_file,
\* graph.remove_file(path), or remove_file for a path that is gone.
HandleEvents_remove(d) ==
    /\ wpc.pc = "locked"
    /\ wpc.todo # <<>>
    /\ dgraph' = [dgraph EXCEPT ![d] = remove_file(@, Head(wpc.todo))]
    /\ wpc' = IF tree[Head(wpc.todo)].exists
              THEN [wpc EXCEPT !.pc = "removed"]
              ELSE [wpc EXCEPT !.todo = Tail(@)]
    /\ UNCHANGED <<pvars, cli, qvars, flock, poisoned, gvars, dpc, sockFile, pidFile,
                   backlog, cur, shutdown, watching, lock, cvars>>

\* The rest of rebuild_file, still under the write guard:
\* fs::read_to_string(path)?, extract_file(path, &source)? and
\* build_from_extractions; an Err is logged and the loop goes on.
HandleEvents_reinsert(d) ==
    /\ wpc.pc = "removed"
    /\ LET path == Head(wpc.todo)
       IN dgraph' = [dgraph EXCEPT ![d] =
                       IF tree[path].exists /\ tree[path].ok
                       THEN build_from_extractions(@,
                                <<extract_file(path, tree[path])>>)
                       ELSE @]
    /\ wpc' = [pc |-> "locked", todo |-> Tail(wpc.todo)]
    /\ UNCHANGED <<pvars, cli, qvars, flock, poisoned, gvars, dpc, sockFile, pidFile,
                   backlog, cur, shutdown, watching, lock, cvars>>

\* The end of handle_events: the write guard is dropped.
HandleEvents_unlock(d) ==
    /\ wpc.pc = "locked"
    /\ wpc.todo = <<>>
    /\ lock' = [lock EXCEPT ![d].writer = 0]
    /\ wpc' = NoBatch
    /\ UNCHANGED <<pvars, cli, qvars, flock, poisoned, gvars, dpc, sockFile, pidFile,
                   backlog, cur, shutdown, dgraph, watching, cvars>>

WatchConns == 1..MaxWatchConns

InitWatch ==
    /\ InitIdle
    /\ watching = [d \in Daemons |-> FALSE]
    /\ tree = InitTree
    /\ graph = NewGraph
    /\ pending = {}
    /\ ops = MaxWatchOps
    /\ disk = NoFile
    /\ loaded = NoGraph
    /\ gone = {}
    /\ upd = [p \in Paths |-> NoUpdate]

\* One daemon serving read requests while the tree changes and its watcher
\* thread applies the batches.
NextWatch ==
    \/ ServeStep(1)
    \/ \E c \in WatchConns : \E line \in ReadCommands : Connect(c, line)
    \/ \E c \in WatchConns : ReadRequest(c)
    \/ \E c \in WatchConns : ReadLock(c)
    \/ \E c \in WatchConns : Stats(c)
    \/ \E c \in WatchConns : OverviewStats(c)
    \/ \E c \in WatchConns : OverviewSearch(c)
    \/ \E c \in WatchConns : ReadUnlock(c)
    \/ \E c \in WatchConns : WriteResponse(c)
    \/ \E order \in Perms(pending) : HandleEvents_collect(1, order)
    \/ HandleEvents_lock(1)
    \/ HandleEvents_remove(1)
    \/ HandleEvents_reinsert(1)
    \/ HandleEvents_unlock(1)
    \/ \E p \in Paths : \E c \in Contents : FsWrite(p, c)
    \/ \E p \in Paths : FsDelete(p)

SpecWatch == InitWatch /\ [][NextWatch]_vars

(***************************************************************************)
(* Ping and shutdown next to the writers of the graph lock                 *)
(* (daemon/server.rs)                                                      *)
(***************************************************************************)
\* handle_events of the watcher thread on a poisoned lock: graph.write()
\* is an Err, a warning is logged and the batch is dropped.
HandleEvents_poisoned(d) ==
    /\ wpc.pc = "batch"
    /\ lock[d] = Unlocked
    /\ poisoned[d]
    /\ wpc' = NoBatch
    /\ UNCHANGED <<pvars, cli, qvars, flock, poisoned, gvars, dvars, cvars>>

ControlLines == {"ping", "shutdown", "rebuild"}

ControlHandlerStep(c) ==
    \/ ReadRequest(c)
    \/ Ping(c)
    \/ Shutdown(c)
    \/ RebuildBuild(c)
    \/ RebuildLock(c)
    \/ RebuildLockPoisoned(c)
    \/ RebuildSwap(c)
    \/ RebuildPanic(c)
    \/ WriteResponse(c)

\* One daemon serving ping, shutdown and rebuild requests while files are
\* deleted, its watcher thread applies the batches and a rebuild may panic
\* under the write guard.  No deleted file comes back, so the watcher
\* thread never reaches the second half of rebuild_file.
NextControl ==
    \/ ServeStep(1)
    \/ \E c \in Conns : \E line \in ControlLines : Connect(c, line)
    \/ \E c \in Conns : ControlHandlerStep(c)
    \/ \E order \in Perms(pending) : HandleEvents_collect(1, order)
    \/ HandleEvents_lock(1)
    \/ HandleEvents_remove(1)
    \/ HandleEvents_unlock(1)
    \/ HandleEvents_poisoned(1)
    \/ \E p \in Paths : FsDelete(p)

SpecControl == InitWatch /\ [][NextControl]_vars

(***************************************************************************)
(* Context queries (query/context.rs)                                      *)
(***************************************************************************)
\* The intents a client sends: the documented ones and one that is not.
Intents ==
    {"explore", "change", "create", "overview", "find", "understand",
     "modify", "refactor", "bogus"}

\* The queries a client sends: symbol names and a file path.
ContextQueries == Names \cup {"src/a.rs"}

\* Reference::from_dep on the DependencyInfo of node i.
Reference(g, i) ==
    [symbol |-> g.nodes[i].name, file |-> g.nodes[i].file_path]

\* Symbol::from_search_result.
Symbol(r) == [name |-> r.symbol, file |-> r.file]

Symbols(results) == [k \in 1..Len(results) |-> Symbol(results[k])]

\* ContextResponse { query, intent, ..Default::default() }
DefaultResponse(query, intent) ==
    [query |-> query, intent |-> intent, found |-> FALSE, symbols |-> <<>>,
     used_by |-> {}, uses |-> {}, edits |-> {}, patterns |-> <<>>,
     tests |-> {}]

\* explore: dependents and dependencies of the query.
explore(g, query, response) ==
    [response EXCEPT
        !.used_by = {Reference(g, i) : i \in dependents(g, query)},
        !.uses = {Reference(g, i) : i \in dependencies(g, query)}]

\* result.code.contains(symbol): the snippet of a function holds its own
\* name and the names it calls.
CodeContains(r, symbol) == r.symbol = symbol \/ symbol \in r.calls

\* build_edit for the dependent i, without a new signature: None when the
\* caller is not found by search, otherwise an Edit with no suggestion.
HasEdit(g, i) == Len(search(g, g.nodes[i].name, 1)) > 0
build_edit(g, target_symbol, i) ==
    [file |-> g.nodes[i].file_path, in_symbol |-> g.nodes[i].name,
     target |-> target_symbol, suggested |-> "None", new_args |-> <<>>,
     removed_args |-> <<>>]

\* The cap of find_tests.
TestsCap == 5

\* The first loop of find_tests over the results of search("test", 50): a
\* result named like a test whose code mentions the symbol is pushed, and
\* the loop breaks once the cap is reached.
RECURSIVE TestsFromResults(_, _)
TestsFromResults(results, tests) ==
    IF results = <<>> THEN tests
    ELSE LET r == Head(results)
         IN IF r.named /\ r.mentions
            THEN IF Len(tests) + 1 >= TestsCap
                 THEN Append(tests, r.symbol)
                 ELSE TestsFromResults(Tail(results), Append(tests, r.symbol))
            ELSE TestsFromResults(Tail(results), tests)

\* The second loop of find_tests over the dependents: a dependent named
\* like a test that search finds and that is not listed yet is pushed, and
\* the loop breaks when the cap is reached after a push.
RECURSIVE TestsFromDeps(_, _)
TestsFromDeps(deps, tests) ==
    IF deps = <<>> THEN tests
    ELSE LET d == Head(deps)
         IN IF /\ d.named
               /\ d.found
               /\ \A k \in 1..Len(tests) : tests[k].name # d.name
            THEN IF Len(tests) + 1 >= TestsCap
                 THEN Append(tests, d.symbol)
                 ELSE TestsFromDeps(Tail(deps), Append(tests, d.symbol))
            ELSE TestsFromDeps(Tail(deps), tests)

\* find_tests on the graph: the tests collected by the two loops.
find_tests(g, symbol) ==
    LET found == search(g, "test", 50)
        results == [k \in 1..Len(found) |->
                      [symbol |-> Symbol(found[k]),
                       named |-> NameContains(found[k].symbol, "test"),
                       mentions |-> CodeContains(found[k], symbol)]]
        ids == TakeFirst(g, dependents(g, symbol),
                         Cardinality(dependents(g, symbol)))
        deps == [k \in 1..Len(ids) |->
                   [name |-> g.nodes[ids[k]].name,
                    named |-> NameContains(g.nodes[ids[k]].name, "test"),
                    found |-> HasEdit(g, ids[k]),
                    symbol |-> IF HasEdit(g, ids[k])
                               THEN Symbol(search(g, g.nodes[ids[k]].name, 1)[1])
                               ELSE <<>>]]
        tests == TestsFromDeps(deps, TestsFromResults(results, <<>>))
    IN {tests[k] : k \in 1..Len(tests)}

\* change with new_signature = None: dependents, one edit per dependent
\* that search finds, and the related tests.
change(g, query, response) ==
    [response EXCEPT
        !.used_by = {Reference(g, i) : i \in dependents(g, query)},
        !.edits = {build_edit(g, query, i) :
                     i \in {j \in dependents(g, query) : HasEdit(g, j)}},
        !.tests = find_tests(g, query)]

\* find_similar: the other symbols of the same kind (every symbol of the
\* model is a function, every file is in src/; the cap of five is above the
\* number of symbols of the model).
find_similar(g, reference) ==
    Symbols(SelectSeq(search(g, "", 100),
                      LAMBDA r : r.symbol # reference.symbol))

\* create: the patterns similar to the first result.
create(g, results, response) ==
    [response EXCEPT !.patterns = find_similar(g, results[1])]

\* results.is_empty() that never holds.
NoMatchNever(results) == FALSE

\* results.is_empty()
NoMatch(results) == Len(results) = 0

\* get_context(graph, query, intent): get_context_for_change with
\* new_signature = None.
get_context(g, query, intent) ==
    LET response == DefaultResponse(query, intent)
        results == search(g, query, 5)
    IN IF NoMatch(results) THEN response
       ELSE LET hit == [response EXCEPT !.found = TRUE,
                                        !.symbols = Symbols(results)]
            IN CASE intent = "explore" -> explore(g, query, hit)
                 [] intent = "change" -> change(g, query, hit)
                 [] intent = "create" -> create(g, results, hit)
                 [] OTHER -> explore(g, query, hit)

\* Number of file-system changes in one behaviour of the context model.
MaxContextOps == 1

\* process_request, Request::Context: get_context on the graph under the
\* read guard, returned in Response::ok.  One request is followed in a
\* behaviour.
ContextRequest(query, intent) ==
    /\ ctx = NoContext
    /\ ctx' = [status |-> "answered",
               frame |-> Ok(get_context(graph, query, intent))]
    /\ UNCHANGED <<gvars, dvars, cvars, pvars, wvars, cli, sig, call, poisoned>>

InitContext == InitBuilt /\ ops = MaxContextOps

NextContext ==
    \/ \E p \in Paths : \E c \in Contents : FsWrite(p, c)
    \/ \E p \in Paths : FsDelete(p)
    \/ \E order \in Perms(pending) : HandleEvents(order)
    \/ \E q \in ContextQueries : \E i \in Intents : ContextRequest(q, i)

SpecContext == InitContext /\ [][NextContext]_vars

(***************************************************************************)
(* Context and Create requests of a daemon (daemon/server.rs)              *)
(***************************************************************************)
\* The arguments of the two requests.
ContextTarget == "helper"
CreatePath == "src/a.rs"
CreateContent == cBoth

\* The read guard of connection c's handler is held.
ReadGuard(c) == c \in lock[Daemon(c)].readers

\* Request::Context and Request::Create, first statement: graph.read()
GuardedLock(c) ==
    /\ hpc[c] = "process"
    /\ Decode(creq[c]).request \in GuardedCommands
    /\ lock[Daemon(c)].writer = 0
    /\ ~poisoned[Daemon(c)]
    /\ lock' = [lock EXCEPT ![Daemon(c)].readers = @ \cup {c}]
    /\ hpc' = [hpc EXCEPT ![c] = IF creq[c] = "context" THEN "ctx_locked"
                                 ELSE "cr_locked"]
    /\ UNCHANGED <<pvars, fvars, poisoned, gvars, dpc, sockFile, pidFile,
                   backlog, cur, shutdown, dgraph, watching, creq, cresp,
                   cdaemon, hbuf>>

\* get_context(&g, &query, &intent) up to the first call of
\* get_context_lines: the walk of the graph.  build_edit reaches
\* get_context_lines for a dependent whose snippet holds a usage of the
\* target, and a dependent is a caller, so for every edit.
ContextWalk(c) ==
    /\ hpc[c] = "ctx_locked"
    /\ LET response == get_context(dgraph[Daemon(c)], ContextTarget, "change")
       IN IF response.edits = {}
          THEN /\ hbuf' = [hbuf EXCEPT ![c] = Ok(response)]
               /\ hpc' = [hpc EXCEPT ![c] = "answered"]
          ELSE /\ hbuf' = [hbuf EXCEPT ![c] =
                             [status |-> "partial", response |-> response]]
               /\ hpc' = [hpc EXCEPT ![c] = "ctx_files"]
    /\ UNCHANGED <<pvars, fvars, poisoned, gvars, dvars, creq, cresp, cdaemon>>

\* get_context_lines(&dep.file, actual_line, 2) of the edits:
\* fs::read_to_string(file_path), inside get_context and so before the
\* arm's guard is dropped.  The lines read are not part of the model's
\* Edit.
ContextFiles(c) ==
    /\ hpc[c] = "ctx_files"
    /\ hbuf' = [hbuf EXCEPT ![c] = Ok(hbuf[c].response)]
    /\ hpc' = [hpc EXCEPT ![c] = "answered"]
    /\ UNCHANGED <<pvars, fvars, poisoned, gvars, dvars, creq, cresp, cdaemon>>

\* lock_manager.acquire_with_wait(&file_path, &g, 30 s), called with the
\* read guard g: the file lock is taken when it is free, otherwise the call
\* waits for it.
CreateAcquire(c) ==
    /\ hpc[c] = "cr_locked"
    /\ IF flock[CreatePath] = 0
       THEN /\ flock' = [flock EXCEPT ![CreatePath] = c]
            /\ hbuf' = [hbuf EXCEPT ![c] = [status |-> "Acquired"]]
            /\ hpc' = [hpc EXCEPT ![c] = "cr_result"]
       ELSE /\ hpc' = [hpc EXCEPT ![c] = "cr_waiting"]
            /\ UNCHANGED <<flock, hbuf>>
    /\ UNCHANGED <<pvars, cli, qvars, wpc, poisoned, gvars, dvars, creq, cresp,
                   cdaemon>>

\* The end of the wait inside acquire_with_wait: the file lock has become
\* free and is taken (AcquiredAfterWait), or the 30 seconds are over
\* (Blocked).
CreateWaitEnd(c, timeout) ==
    /\ hpc[c] = "cr_waiting"
    /\ IF timeout
       THEN /\ hbuf' = [hbuf EXCEPT ![c] = [status |-> "Blocked"]]
            /\ UNCHANGED flock
       ELSE /\ flock[CreatePath] = 0
            /\ flock' = [flock EXCEPT ![CreatePath] = c]
            /\ hbuf' = [hbuf EXCEPT ![c] = [status |-> "AcquiredAfterWait"]]
    /\ hpc' = [hpc EXCEPT ![c] = "cr_result"]
    /\ UNCHANGED <<pvars, cli, qvars, wpc, poisoned, gvars, dvars, creq, cresp,
                   cdaemon>>

\* drop(g), then the match on lock_result: a Blocked result is answered
\* with an error.
CreateDrop(c) ==
    /\ hpc[c] = "cr_result"
    /\ lock' = [lock EXCEPT ![Daemon(c)].readers = @ \ {c}]
    /\ IF hbuf[c].status = "Blocked"
       THEN /\ hbuf' = [hbuf EXCEPT ![c] = Error("Blocked")]
            /\ hpc' = [hpc EXCEPT ![c] = "respond"]
       ELSE /\ hpc' = [hpc EXCEPT ![c] = "cr_write"]
            /\ UNCHANGED hbuf
    /\ UNCHANGED <<pvars, fvars, poisoned, gvars, dpc, sockFile, pidFile,
                   backlog, cur, shutdown, dgraph, watching, creq, cresp,
                   cdaemon>>

\* create_dir_all(parent) and write::create_file(&file_path, &content);
\* the notify backend queues an event for the path.
CreateWrite(c) ==
    /\ hpc[c] = "cr_write"
    /\ tree' = [tree EXCEPT ![CreatePath] = CreateContent]
    /\ pending' = IF Watched THEN pending \cup {CreatePath} ELSE pending
    /\ hpc' = [hpc EXCEPT ![c] = "cr_release"]
    /\ UNCHANGED <<pvars, fvars, poisoned, graph, ops, disk, loaded, gone, upd,
                   dvars, creq, cresp, cdaemon, hbuf>>

\* lock_manager.release(&file_path), then the response.
CreateRelease(c) ==
    /\ hpc[c] = "cr_release"
    /\ flock' = [flock EXCEPT ![CreatePath] = 0]
    /\ hbuf' = [hbuf EXCEPT ![c] = Ok([success |-> TRUE, path |-> CreatePath])]
    /\ hpc' = [hpc EXCEPT ![c] = "respond"]
    /\ UNCHANGED <<pvars, cli, qvars, wpc, poisoned, gvars, dvars, creq, cresp,
                   cdaemon>>

\* The steps of the handler of a Context or Create request.
GuardedStep(c) ==
    \/ ReadRequest(c)
    \/ GuardedLock(c)
    \/ ContextWalk(c)
    \/ ContextFiles(c)
    \/ ReadUnlock(c)
    \/ CreateAcquire(c)
    \/ \E timeout \in BOOLEAN : CreateWaitEnd(c, timeout)
    \/ CreateDrop(c)
    \/ CreateWrite(c)
    \/ CreateRelease(c)
    \/ WriteResponse(c)

\* The steps of the watcher thread of daemon d.
HandleEventsStep(d) ==
    \/ \E order \in Perms(pending) : HandleEvents_collect(d, order)
    \/ HandleEvents_lock(d)
    \/ HandleEvents_remove(d)
    \/ HandleEvents_reinsert(d)
    \/ HandleEvents_unlock(d)

\* One daemon serving Context and Create requests while its watcher thread
\* applies the events of the files created.
NextLocks ==
    \/ ServeStep(1)
    \/ \E c \in Conns : \E line \in GuardedCommands : Connect(c, line)
    \/ \E c \in Conns : GuardedStep(c)
    \/ HandleEventsStep(1)

SpecLocks == InitWatch /\ [][NextLocks]_vars

(***************************************************************************)
(* Signatures (query/types.rs)                                             *)
(***************************************************************************)
\* Number of comma-separated pieces between the parentheses of a signature.
MaxParams == 2

\* The pieces between the commas of a parameter list, as written: with a
\* type, without one, and empty (a trailing comma).
ParamTexts == {"input: &str", "input: String", "strict: bool", "strict", ""}

\* A signature as written: its name and the pieces of its parameter list.
SigTexts ==
    UNION {[name : {"validate"}, params : [1..n -> ParamTexts]] :
             n \in 0..MaxParams}

\* The part of a piece before the colon, or the whole piece.
ParamName(text) ==
    CASE text \in {"input: &str", "input: String"} -> "input"
      [] text \in {"strict: bool", "strict"} -> "strict"
      [] OTHER -> text

\* The part of a piece after the colon, or the empty string.
ParamType(text) ==
    CASE text = "input: &str" -> "&str"
      [] text = "input: String" -> "String"
      [] text = "strict: bool" -> "bool"
      [] OTHER -> ""

Param(text) == [name |-> ParamName(text), typ |-> ParamType(text)]

\* Signature::parse: one Param per non-empty piece, in order.
RECURSIVE ParseParams(_)
ParseParams(texts) ==
    IF texts = <<>> THEN <<>>
    ELSE (IF Head(texts) = "" THEN <<>> ELSE <<Param(Head(texts))>>)
         \o ParseParams(Tail(texts))

parse(text) == [name |-> text.name, params |-> ParseParams(text.params)]

ParamNames(s) == {s.params[k].name : k \in 1..Len(s.params)}

\* diff that compares whole parameters, name and type.
diff_by_param(old, new) ==
    LET old_params == {old.params[k] : k \in 1..Len(old.params)}
        new_params == {new.params[k] : k \in 1..Len(new.params)}
    IN [added |-> SelectSeq(new.params, LAMBDA p : p \notin old_params),
        removed |-> SelectSeq(old.params, LAMBDA p : p \notin new_params)]

\* Signature::diff: (added, removed) of self = old against new.
diff(old, new) ==
    LET old_names == ParamNames(old)
        new_names == ParamNames(new)
    IN [added |-> SelectSeq(new.params, LAMBDA p : p.name \notin old_names),
        removed |-> SelectSeq(old.params, LAMBDA p : p.name \notin new_names)]

\* Signature::parse of the two signatures o and n.
SigParse(o, n) ==
    /\ sig' = [status |-> "parsed", old |-> parse(o), new |-> parse(n),
               forward |-> NoDiff, backward |-> NoDiff]
    /\ UNCHANGED <<gvars, dvars, cvars, pvars, wvars, cli, ctx, call, poisoned>>

\* old.diff(&new)
SigDiff ==
    /\ sig.status = "parsed"
    /\ sig.forward = NoDiff
    /\ sig' = [sig EXCEPT !.forward = diff(sig.old, sig.new)]
    /\ UNCHANGED <<gvars, dvars, cvars, pvars, wvars, cli, ctx, call, poisoned>>

\* new.diff(&old)
SigDiffBack ==
    /\ sig.status = "parsed"
    /\ sig.backward = NoDiff
    /\ sig' = [sig EXCEPT !.backward = diff(sig.new, sig.old)]
    /\ UNCHANGED <<gvars, dvars, cvars, pvars, wvars, cli, ctx, call, poisoned>>

\* Two signatures as written are parsed, once in a behaviour.
SigParseAny ==
    /\ sig = NoDiff
    /\ \E o \in SigTexts : \E n \in SigTexts : SigParse(o, n)

InitDiff == InitCli /\ tree = InitTree

NextDiff ==
    \/ SigParseAny
    \/ SigDiff
    \/ SigDiffBack

SpecDiff == InitDiff /\ [][NextDiff]_vars

(***************************************************************************)
(* Full builds of a changing tree (graph/builder.rs)                       *)
(***************************************************************************)
\* Number of file-system changes in one behaviour of the build model.
MaxBuildOps == 1

\* build_graph(root) called by a library user, who keeps the result.
BuildGraph ==
    /\ \E g \in build_graph(tree) : graph' = g
    /\ UNCHANGED <<tree, pending, ops, disk, loaded, gone, upd, dvars, cvars,
                   pvars, fvars, poisoned>>

\* A tree, no graph built yet, no watcher.
InitBuild ==
    /\ InitIdle
    /\ watching = [d \in Daemons |-> FALSE]
    /\ tree \in Trees
    /\ graph = NewGraph
    /\ pending = {}
    /\ disk = NoFile
    /\ loaded = NoGraph
    /\ gone = {}
    /\ upd = [p \in Paths |-> NoUpdate]
    /\ ops = MaxBuildOps

NextBuild ==
    \/ \E p \in Paths : \E c \in Contents : FsWrite(p, c)
    \/ \E p \in Paths : FsDelete(p)
    \/ BuildGraph

SpecBuild == InitBuild /\ [][NextBuild]_vars

(***************************************************************************)
(* Code snippets (parser/extractor.rs)                                     *)
(***************************************************************************)
MAX_SNIPPET_LINES == 10
MAX_SNIPPET_BYTES == 2048

\* A text is its lines, without the newlines between them.  A line is its
\* length in bytes and the width in bytes of each of its characters (the
\* model's lines hold characters of one width); a line a truncation
\* appended says which.
Line(bytes, w) == [bytes |-> bytes, w |-> w, marker |-> "none"]

\* "    // ... (truncated)" and "    // ...", each pushed after a newline.
TruncatedMarker == [bytes |-> 22, w |-> 1, marker |-> "bytes"]
DotsMarker == [bytes |-> 10, w |-> 1, marker |-> "lines"]

\* str::len: the bytes of the lines and of the newlines between them.
RECURSIVE TextBytes(_)
TextBytes(text) ==
    IF text = <<>> THEN 0
    ELSE Head(text).bytes + (IF Len(text) > 1 THEN 1 ELSE 0)
         + TextBytes(Tail(text))

\* raw[..end] for the largest end <= limit that is a character boundary.
RECURSIVE CutAt(_, _)
CutAt(text, limit) ==
    IF text = <<>> THEN <<>>
    ELSE LET l == Head(text)
         IN IF l.bytes >= limit
            THEN <<[l EXCEPT !.bytes = (limit \div l.w) * l.w]>>
            ELSE <<l>> \o (IF Len(text) > 1
                           THEN CutAt(Tail(text), limit - l.bytes - 1)
                           ELSE <<>>)

\* bounded_snippet on the text of a node.
bounded_snippet(raw) ==
    LET byte_bounded ==
            IF TextBytes(raw) > MAX_SNIPPET_BYTES
            THEN CutAt(raw, MAX_SNIPPET_BYTES) \o <<TruncatedMarker>>
            ELSE raw
    IN IF Len(byte_bounded) <= MAX_SNIPPET_LINES
       THEN byte_bounded
       ELSE SubSeq(byte_bounded, 1, MAX_SNIPPET_LINES) \o <<DotsMarker>>

\* Most lines of a symbol of the model.
MaxSymbolLines == 11

\* The lines of the model: empty, short, long ASCII, and long lines of
\* three-byte characters.
LineShapes == {Line(0, 1), Line(40, 1), Line(300, 1), Line(2049, 3)}

\* The source text of a symbol: a first line and further lines of one shape.
SymbolTexts ==
    {[k \in 1..n |-> IF k = 1 THEN first ELSE rest] :
        n \in 1..MaxSymbolLines, first \in LineShapes, rest \in LineShapes}

\* A symbol is extracted: its snippet is bounded_snippet of its text.
ExtractSnippet ==
    /\ call = NoCall
    /\ \E raw \in SymbolTexts :
          call' = [status |-> "snippet", raw |-> raw,
                   snippet |-> bounded_snippet(raw)]
    /\ UNCHANGED <<gvars, dvars, cvars, pvars, wvars, cli, ctx, sig, poisoned>>

\* The extraction is over.
ExtractDone ==
    /\ call.status = "snippet"
    /\ call' = [call EXCEPT !.status = "stored"]
    /\ UNCHANGED <<gvars, dvars, cvars, pvars, wvars, cli, ctx, sig, poisoned>>

InitSnippet == InitCli /\ tree = InitTree

NextSnippet == ExtractSnippet \/ ExtractDone

SpecSnippet == InitSnippet /\ [][NextSnippet]_vars

(***************************************************************************)
(* Related tests of a symbol (query/context.rs)                            *)
(***************************************************************************)
\* Most functions of a code base of the test model.
MaxTestFns == 7

\* What a function of the code base is to the target symbol: a test that
\* does not mention it, a test that mentions it without calling it, a test
\* that calls it, or a caller that is not named like a test.
FnKinds == {"unrelated", "mentions", "calls", "caller"}

\* A code base: its functions in the order search lists them.
CodeBases == UNION {[1..n -> FnKinds] : n \in 0..MaxTestFns}

TestSymbol(k) == [name |-> k, file |-> "src/tests.rs"]

\* graph.search("test", 50) on a code base: the functions named like tests.
TestResults(base) ==
    LET ks == SelectSeq([k \in 1..Len(base) |-> k],
                        LAMBDA k : base[k] # "caller")
    IN [j \in 1..Len(ks) |->
          [symbol |-> TestSymbol(ks[j]), named |-> TRUE,
           mentions |-> base[ks[j]] \in {"mentions", "calls"}]]

\* graph.dependents(symbol) on a code base: the functions that call it.
TestDeps(base) ==
    LET ks == SelectSeq([k \in 1..Len(base) |-> k],
                        LAMBDA k : base[k] \in {"calls", "caller"})
    IN [j \in 1..Len(ks) |->
          [name |-> ks[j], named |-> base[ks[j]] = "calls", found |-> TRUE,
           symbol |-> TestSymbol(ks[j])]]

\* find_tests on a code base, called by change.
FindTests ==
    /\ call = NoCall
    /\ \E base \in CodeBases :
          call' = [status |-> "tests", base |-> base,
                   tests |-> TestsFromDeps(TestDeps(base),
                               TestsFromResults(TestResults(base), <<>>))]
    /\ UNCHANGED <<gvars, dvars, cvars, pvars, wvars, cli, ctx, sig, poisoned>>

InitTests == InitCli /\ tree = InitTree

NextTests == FindTests

SpecTests == InitTests /\ [][NextTests]_vars

(***************************************************************************)
(* Suggested edits of a signature change (query/context.rs)                *)
(***************************************************************************)
None == [some |-> FALSE]
Some(v) == [some |-> TRUE, value |-> v]

\* Call arguments as written, in tokens: two names, a nested call and an
\* array literal, the last two with a comma inside brackets.
ArgTexts ==
    {<<"input">>, <<"cfg">>, <<"bar", "(", "x", ",", "y", ")">>,
     <<"[", "a", ",", "b", "]">>}

\* Most arguments of a call of the model.
MaxArgs == 2

ArgLists == UNION {[1..n -> ArgTexts] : n \in 0..MaxArgs}

\* The arguments written one after the other with commas between them.
RECURSIVE JoinArgs(_)
JoinArgs(args) ==
    IF args = <<>> THEN <<>>
    ELSE IF Len(args) = 1 THEN args[1]
    ELSE args[1] \o <<",">> \o JoinArgs(Tail(args))

\* The call expression name(args) as extract_call_expression returns it.
CallText(name, args) == <<name, "(">> \o JoinArgs(args) \o <<")">>

\* The loop of extract_call_args over the text between the parentheses:
\* brackets of any kind change the depth, a comma at depth 0 ends the
\* current argument, what is left at the end is pushed when not empty.
RECURSIVE SplitArgs(_, _, _, _)
SplitArgs(text, depth, current, args) ==
    IF text = <<>>
    THEN IF current # <<>> THEN Append(args, current) ELSE args
    ELSE LET c == Head(text)
         IN IF c \in {"(", "[", "{"}
            THEN SplitArgs(Tail(text), depth + 1, Append(current, c), args)
            ELSE IF c \in {")", "]", "}"}
            THEN SplitArgs(Tail(text), depth - 1, Append(current, c), args)
            ELSE IF c = "," /\ depth = 0
            THEN SplitArgs(Tail(text), depth, <<>>, Append(args, current))
            ELSE SplitArgs(Tail(text), depth, Append(current, c), args)

\* extract_call_args(call), call written expr: the text between the first "(" and the last
\* ")", split by the loop.
extract_call_args(expr) ==
    LET opens == {k \in 1..Len(expr) : expr[k] = "("}
        closes == {k \in 1..Len(expr) : expr[k] = ")"}
    IN IF opens = {} \/ closes = {} THEN <<>>
       ELSE LET open_paren == CHOOSE k \in opens : \A j \in opens : k <= j
                close_paren == CHOOSE k \in closes : \A j \in closes : j <= k
                args_str == SubSeq(expr, open_paren + 1, close_paren - 1)
            IN IF args_str = <<>> THEN <<>>
               ELSE SplitArgs(args_str, 0, <<>>, <<>>)

\* generate_suggested_call: the new name applied to the current arguments
\* followed by a placeholder <name> per added parameter.
generate_suggested_call(current_usage, new_sig, added_params) ==
    [name |-> new_sig.name,
     args |-> extract_call_args(current_usage)
              \o [k \in 1..Len(added_params) |->
                    <<"<", added_params[k].name, ">">>]]

\* The first line of the definition of the target symbol in its snippet:
\* the keyword it starts with, whether the parameter list is closed on that
\* line, and the signature it declares.
DefKeywords == {"fn", "def", "function", "func"}

\* The parameter pieces a "def" line keeps before its first colon: all of
\* them when none has a type, otherwise those before the first typed one
\* and the name of that one.
RECURSIVE BeforeColon(_)
BeforeColon(texts) ==
    IF texts = <<>> THEN <<>>
    ELSE IF ParamType(Head(texts)) # ""
    THEN <<ParamName(Head(texts))>>
    ELSE <<Head(texts)>> \o BeforeColon(Tail(texts))

\* extract_signature_from_code on the snippet of the target symbol: the
\* first line that looks like a definition decides.
extract_signature_from_code(def) ==
    CASE def.keyword \in {"fn", "function"} ->
            IF def.closed THEN Some(parse(def.sig)) ELSE None
      [] def.keyword = "def" ->
            IF def.closed
            THEN Some(parse([def.sig EXCEPT !.params = BeforeColon(@)]))
            ELSE Some(parse([def.sig EXCEPT !.params = <<>>]))
      [] OTHER -> None

\* change: the old signature from the code of the symbol, the new one from
\* the request, and their diff when both are there.
signature_diff(old_sig, new_sig) ==
    IF old_sig.some /\ new_sig.some
    THEN Some(diff(old_sig.value, new_sig.value))
    ELSE None

\* build_edit for a dependent whose code holds the usage: the suggestion
\* and the argument lists when both the new signature and the diff are
\* there, nothing otherwise.
build_edit_usage(usage_expr, new_sig, sig_diff) ==
    IF new_sig.some /\ sig_diff.some
    THEN [usage |-> usage_expr,
          suggested |-> Some(generate_suggested_call(usage_expr,
                                new_sig.value, sig_diff.value.added)),
          new_args |-> [k \in 1..Len(sig_diff.value.added) |->
                          <<sig_diff.value.added[k].name, ": ",
                            sig_diff.value.added[k].typ>>],
          removed_args |-> [k \in 1..Len(sig_diff.value.removed) |->
                              sig_diff.value.removed[k].name]]
    ELSE [usage |-> usage_expr, suggested |-> None, new_args |-> <<>>,
          removed_args |-> <<>>]

\* Signatures the target symbol declares in the model: at most one
\* parameter piece.
OldSigTexts == {s \in SigTexts : Len(s.params) <= 1}

DefLines == [keyword : DefKeywords, closed : BOOLEAN, sig : OldSigTexts]

\* The new signature of a request: none, or one that parses.
NewSignatures == {None} \cup {Some(s) : s \in SigTexts}

\* get_context_for_change(graph, "validate", "change", new_signature) for
\* a target with the definition line def and one dependent that calls it
\* with the arguments args.
ChangeEdit ==
    /\ call = NoCall
    /\ \E def \in DefLines : \E new_signature \in NewSignatures :
       \E args \in ArgLists :
          LET old_sig == extract_signature_from_code(def)
              new_sig == IF new_signature.some
                         THEN Some(parse(new_signature.value))
                         ELSE None
          IN call' = [status |-> "edit", def |-> def,
                      new_signature |-> new_signature, args |-> args,
                      edit |-> build_edit_usage(CallText("validate", args),
                                  new_sig, signature_diff(old_sig, new_sig))]
    /\ UNCHANGED <<gvars, dvars, cvars, pvars, wvars, cli, ctx, sig, poisoned>>

InitEdit == InitCli /\ tree = InitTree

NextEdit == ChangeEdit

SpecEdit == InitEdit /\ [][NextEdit]_vars

(***************************************************************************)
(* Paths and event batches of the watcher (watcher/mod.rs)                 *)
(***************************************************************************)
\* Number of events in one debounced batch.
MaxEvents == 3

\* Directories to always ignore.
IGNORED_DIRS ==
    {".git", "target", "node_modules", ".anchor", "__pycache__", ".venv",
     "dist", "build"}

\* A path is the sequence of its components.  The project root of the
\* daemon and event-batch models.
ProjectRoot == <<"home", "proj">>

\* The files events are reported for: the source files of the tree, a file
\* with an unknown extension and a source file below target/.
EventFiles == Paths \cup {"src/notes.txt", "target/a.rs"}

\* The components of a file's path below the root.
Components(file) ==
    CASE file = "src/a.rs" -> <<"src", "a.rs">>
      [] file = "src/b.rs" -> <<"src", "b.rs">>
      [] file = "src/notes.txt" -> <<"src", "notes.txt">>
      [] file = "target/a.rs" -> <<"target", "a.rs">>

\* The extension of a file name ("" when it has none).
Extension(name) ==
    CASE name \in {"a.rs", "b.rs", ".h.rs"} -> "rs"
      [] name = "notes.txt" -> "txt"
      [] OTHER -> ""

\* SupportedLanguage::from_path(path).is_some(): by the extension.
SupportedExtensions ==
    {"rs", "py", "js", "mjs", "cjs", "ts", "tsx", "go", "java", "cs", "rb",
     "cc", "cpp", "cxx", "hpp", "h", "swift"}
from_path(path) == Extension(path[Len(path)]) \in SupportedExtensions

\* should_ignore(path): some component of the path is an ignored name.
should_ignore(path) == \E k \in 1..Len(path) : path[k] \in IGNORED_DIRS

\* DebouncedEventKind
EventKinds == {"Any", "AnyContinuous"}

\* The debounced events of a batch: the absolute path and the kind.
Event(root, file, kind) ==
    [file |-> file, path |-> root \o Components(file), kind |-> kind]

Batches(root) ==
    UNION {[1..n -> {Event(root, f, k) : f \in EventFiles, k \in EventKinds}] :
             n \in 1..MaxEvents}

NoKind == "none"

\* The first loop of handle_events that keeps the kind of the first event
\* of a path.
RECURSIVE collect_first(_, _)
collect_first(events, paths) ==
    IF events = <<>> THEN paths
    ELSE LET e == Head(events)
         IN IF should_ignore(e.path) \/ ~from_path(e.path)
               \/ paths[e.file] # NoKind
            THEN collect_first(Tail(events), paths)
            ELSE collect_first(Tail(events),
                               [paths EXCEPT ![e.file] = e.kind])

\* The first loop of handle_events: paths.insert(path, kind) for every
\* event that is not ignored and has a supported extension; a later event
\* of the same path replaces the kind.
RECURSIVE collect(_, _)
collect(events, paths) ==
    IF events = <<>> THEN paths
    ELSE LET e == Head(events)
         IN IF should_ignore(e.path) \/ ~from_path(e.path)
            THEN collect(Tail(events), paths)
            ELSE collect(Tail(events), [paths EXCEPT ![e.file] = e.kind])

\* The second loop of handle_events over the map, in the order the HashMap
\* iterates it: Any rebuilds or removes, AnyContinuous is skipped.
RECURSIVE apply_paths(_, _, _, _)
apply_paths(g, order, paths, tr) ==
    IF order = <<>> THEN g
    ELSE LET path == Head(order)
             g1 == IF paths[path] = "Any" THEN ApplyEvent(g, path, tr) ELSE g
         IN apply_paths(g1, Tail(order), paths, tr)

\* handle_events(events, graph, root) on the graph of a library user.
handle_events(g, events, order, tr) ==
    apply_paths(g, order, collect(events, [f \in EventFiles |-> NoKind]), tr)

\* The paths of the map handle_events iterates.
Collected(events) ==
    {f \in EventFiles : collect(events, [x \in EventFiles |-> NoKind])[f] # NoKind}

\* One debounced batch is delivered and applied.
EventBatch(events) ==
    /\ \E order \in Perms(Collected(events)) :
          /\ graph' = handle_events(graph, events, order, tree)
          /\ call' = [status |-> "batch", events |-> events, before |-> graph]
    /\ pending' = {}
    /\ UNCHANGED <<tree, ops, disk, loaded, gone, upd, dvars, cvars, pvars,
                   wvars, cli, ctx, sig, poisoned>>

EventBatchAny ==
    /\ call = NoCall
    /\ \E events \in Batches(ProjectRoot) : EventBatch(events)

InitBatch == InitBuilt /\ tree = InitTree /\ ops = 1

\* The tree changes once, then one batch of events is applied.
NextBatch ==
    \/ \E p \in Paths : \E c \in Contents : call = NoCall /\ FsWrite(p, c)
    \/ \E p \in Paths : call = NoCall /\ FsDelete(p)
    \/ EventBatchAny

SpecBatch == InitBatch /\ [][NextBatch]_vars

(***************************************************************************)
(* The paths a full build walks and the paths the watcher accepts          *)
(* (graph/builder.rs, watcher/mod.rs)                                      *)
(***************************************************************************)
\* Project roots: one with and one without a component that is an ignored
\* directory name.
Roots == {ProjectRoot, <<"home", "build", "proj">>}

\* Directory and file names below the root.
DirNames ==
    IGNORED_DIRS \cup {"src", ".cfg", "vendor"}
FileNames == {"a.rs", "notes.txt", ".h.rs"}

\* Paths of files below the root, one or two components long.
RelPaths ==
    {<<f>> : f \in FileNames} \cup {<<d, f>> : d \in DirNames, f \in FileNames}

\* The directory names a project's .gitignore may list.
GitIgnores == SUBSET {"vendor", "build"}

\* A name that starts with a dot.
Hidden(name) == name \in {".git", ".anchor", ".venv", ".cfg", ".h.rs"}

\* Phase 1 of build_graph for the file at root/rel: WalkBuilder with
\* hidden(true) and git_ignore(true) yields it when no component below the
\* root is hidden or ignored by .gitignore, and the filter keeps it when
\* its language is supported.
walk(root, rel, gitignore) ==
    /\ \A k \in 1..Len(rel) : ~Hidden(rel[k]) /\ rel[k] \notin gitignore
    /\ from_path(root \o rel)

\* The first loop of handle_events for an event of the path: it is kept
\* unless should_ignore(path) or its language is not supported.
watch(path) == ~should_ignore(path) /\ from_path(path)

\* A file of a project is looked at by a full build and by the watcher
\* (the event carries the path below the canonical root the watcher was
\* started on).
WalkAndWatch(root, rel, gitignore) ==
    /\ call' = [status |-> "path", root |-> root, rel |-> rel,
                gitignore |-> gitignore,
                walked |-> walk(root, rel, gitignore),
                watched |-> watch(root \o rel)]
    /\ UNCHANGED <<gvars, dvars, cvars, pvars, wvars, cli, ctx, sig, poisoned>>

WalkAndWatchAny ==
    /\ call = NoCall
    /\ \E root \in Roots : \E rel \in RelPaths : \E gitignore \in GitIgnores :
          WalkAndWatch(root, rel, gitignore)

InitPaths == InitCli /\ tree = InitTree

SpecPaths == InitPaths /\ [][WalkAndWatchAny]_vars

(***************************************************************************)
(* Signature::parse on the text of a signature (query/types.rs)            *)
(***************************************************************************)
\* A text is the sequence of its tokens; white space is left out.  The
\* parameters a signature is written with: name, colon and type, where a
\* type may hold commas, brackets and colons of its own.
ParamSources ==
    {<<"input", ":", "&str">>,
     <<"strict">>,
     <<"map", ":", "HashMap", "<", "String", ",", "u32", ">">>,
     <<"pair", ":", "(", "u32", ",", "u32", ")">>,
     <<"err", ":", "io", ":", ":", "Error">>,
     <<"items", ":", "Vec", "<", "u8", ">">>}

\* The return types a signature is written with (<<>>: none).
ReturnSources ==
    {<<>>, <<"bool">>, <<"Result", "<", "(", ")", ",", "Error", ">">>}

SigSources ==
    UNION {[name : {"validate"}, params : [1..n -> ParamSources],
            ret : ReturnSources] : n \in 0..MaxParams}

\* The pieces joined with a separator token.
RECURSIVE JoinWith(_, _)
JoinWith(pieces, sep) ==
    IF pieces = <<>> THEN <<>>
    ELSE IF Len(pieces) = 1 THEN pieces[1]
    ELSE pieces[1] \o <<sep>> \o JoinWith(Tail(pieces), sep)

\* The text of a signature: NAME ( PARAMS ) [ -> RETURN ].
SigText(src) ==
    <<src.name, "(">> \o JoinWith(src.params, ",") \o <<")">>
        \o (IF src.ret = <<>> THEN <<>> ELSE <<"->">> \o src.ret)

\* str::find and str::rfind of a token: its first and its last position
\* (0: None).
Find(text, tok) ==
    LET at == {k \in 1..Len(text) : text[k] = tok}
    IN IF at = {} THEN 0 ELSE CHOOSE k \in at : \A j \in at : k <= j
RFind(text, tok) ==
    LET at == {k \in 1..Len(text) : text[k] = tok}
    IN IF at = {} THEN 0 ELSE CHOOSE k \in at : \A j \in at : j <= k

\* params_str.split(','): a cut at every comma.
RECURSIVE split(_, _)
split(text, piece) ==
    IF text = <<>> THEN <<piece>>
    ELSE IF Head(text) = ","
         THEN <<piece>> \o split(Tail(text), <<>>)
         ELSE split(Tail(text), Append(piece, Head(text)))

\* The loop over the pieces: an empty piece is skipped, a piece with a
\* colon is cut at its first colon, another one is a name without type.
RECURSIVE parse_params(_)
parse_params(pieces) ==
    IF pieces = <<>> THEN <<>>
    ELSE LET param == Head(pieces)
             colon_idx == Find(param, ":")
         IN (IF param = <<>> THEN <<>>
             ELSE IF colon_idx # 0
             THEN <<[name |-> SubSeq(param, 1, colon_idx - 1),
                     typ |-> SubSeq(param, colon_idx + 1, Len(param))]>>
             ELSE <<[name |-> param, typ |-> <<>>]>>)
            \o parse_params(Tail(pieces))

\* Signature::parse(sig) on a text: None without parentheses, otherwise
\* the name before the first "(", the parameters between it and the last
\* ")", and the return type after the first "->" behind that.
parse_text(text) ==
    LET paren_idx == Find(text, "(")
        close_paren == RFind(text, ")")
        params_str == SubSeq(text, paren_idx + 1, close_paren - 1)
        after_paren == SubSeq(text, close_paren + 1, Len(text))
        arrow_idx == Find(after_paren, "->")
    IN IF paren_idx = 0 \/ close_paren = 0 THEN None
       ELSE Some([name |-> SubSeq(text, 1, paren_idx - 1),
                  params |-> parse_params(split(params_str, <<>>)),
                  return_type |->
                     IF close_paren < Len(text) /\ arrow_idx # 0
                     THEN Some(SubSeq(after_paren, arrow_idx + 1,
                                      Len(after_paren)))
                     ELSE None])

\* A signature is written and parsed.
ParseSignature(src) ==
    /\ call' = [status |-> "signature", source |-> src,
                result |-> parse_text(SigText(src))]
    /\ UNCHANGED <<gvars, dvars, cvars, pvars, wvars, cli, ctx, sig, poisoned>>

ParseSignatureAny ==
    /\ call = NoCall
    /\ \E src \in SigSources : ParseSignature(src)

InitParse == InitCli /\ tree = InitTree

SpecParse == InitParse /\ [][ParseSignatureAny]_vars

(***************************************************************************)
(* Call-site search in a snippet (query/context.rs)                        *)
(***************************************************************************)
\* Number of lines of a caller's snippet.
MaxUsageLines == 2

\* The symbol searched for.
UsageTarget == "validate"

\* Words that hold the target's name: alone, at their end, at their start.
EndsWithTarget(tok) == tok \in {"validate", "revalidate"}
HoldsTarget(tok) == tok \in {"validate", "revalidate", "validated"}

\* The lines of a snippet, as sequences of tokens: calls in the middle of
\* a line, nested, behind another word that holds the name, of a function
\* whose name ends with it, with brackets and braces in the arguments, one
\* whose arguments go on on the next line, and lines without a call.
UsageLines ==
    {<<"let", "x", "=", "validate", "(", "input", ")", ";">>,
     <<"validate", "(", "nested", "(", "x", ")", ",", "y", ")", ";">>,
     <<"let", "validated", "=", "validate", "(", "x", ")", ";">>,
     <<"revalidate", "(", "x", ")", ";">>,
     <<"validate", "(", "a", "[", "1", "]", ",", "{", "b", "}", ")", ";">>,
     <<"validate", "(">>,
     <<"x", ")", ";">>,
     <<"if", "valid", "{">>,
     <<"map", "(", "validate", ")", ";">>}

UsageSnippets == UNION {[1..n -> UsageLines] : n \in 1..MaxUsageLines}

\* The start lines of a dependent (DependencyInfo.line).
DepLines == {1, 40}

\* line.find(symbol): the first word of the line that holds the symbol
\* (0: None).
FindSymbol(line) ==
    LET at == {k \in 1..Len(line) : HoldsTarget(line[k])}
    IN IF at = {} THEN 0 ELSE CHOOSE k \in at : \A j \in at : k <= j

\* extract_call_expression(code): the text up to the closing parenthesis
\* that brings the depth back to zero; only ( and ) are counted.
RECURSIVE CallEnd(_, _, _, _)
CallEnd(code, i, depth, started) ==
    IF i > Len(code) THEN 0
    ELSE IF code[i] = "(" THEN CallEnd(code, i + 1, depth + 1, TRUE)
    ELSE IF code[i] = ")"
         THEN IF started /\ depth - 1 = 0 THEN i
              ELSE CallEnd(code, i + 1, depth - 1, started)
    ELSE CallEnd(code, i + 1, depth, started)

extract_call_expression(code) ==
    LET end_idx == CallEnd(code, 1, 0, FALSE)
    IN IF end_idx > 0 THEN Some(SubSeq(code, 1, end_idx)) ELSE None

\* The body of the loop of find_usages_in_code for one line: the usage of
\* the line, if any.  after_symbol starts at the symbol inside its word.
line_usage(line) ==
    LET start == FindSymbol(line)
        after_symbol == <<UsageTarget>> \o SubSeq(line, start + 1, Len(line))
    IN IF start = 0 THEN None
       ELSE IF ~(EndsWithTarget(line[start]) /\ start < Len(line)
                   /\ line[start + 1] = "(")
       THEN None
       ELSE extract_call_expression(after_symbol)

\* find_usages_in_code(code, symbol): (line_offset, usage_expr, line) of
\* the lines that have a usage, in order; line_offset counts from 0.
RECURSIVE find_usages_from(_, _)
find_usages_from(code, i) ==
    IF i > Len(code) THEN <<>>
    ELSE (IF line_usage(code[i]).some
          THEN <<[line_offset |-> i - 1, usage |-> line_usage(code[i]).value,
                  line |-> code[i]]>>
          ELSE <<>>) \o find_usages_from(code, i + 1)

find_usages_in_code(code) == find_usages_from(code, 1)

\* build_edit: the line of the edit made from the first usage (None when
\* there is no usage and the fallback edit is made).
edit_line(dep_line, usages) ==
    IF usages = <<>> THEN None ELSE Some(dep_line + usages[1].line_offset)

\* The call sites of the target are searched in a dependent's snippet.
FindUsages(code, dep_line) ==
    /\ call' = [status |-> "usages", code |-> code, dep_line |-> dep_line,
                usages |-> find_usages_in_code(code),
                line |-> edit_line(dep_line, find_usages_in_code(code))]
    /\ UNCHANGED <<gvars, dvars, cvars, pvars, wvars, cli, ctx, sig, poisoned>>

FindUsagesAny ==
    /\ call = NoCall
    /\ \E code \in UsageSnippets : \E dep_line \in DepLines :
          FindUsages(code, dep_line)

InitUsages == InitCli /\ tree = InitTree

SpecUsages == InitUsages /\ [][FindUsagesAny]_vars

(***************************************************************************)
(* The scope of a call (parser/extractor.rs)                               *)
(*                                                                         *)
(* A call expression is looked at together with the nodes that enclose it, *)
(* outermost first.  Every enclosing node has a kind of its language and   *)
(* a name; "block" stands for the nodes that define nothing (bodies,       *)
(* statements, expressions).                                               *)
(***************************************************************************)
MaxNesting == 2

Languages ==
    {"Rust", "Python", "JavaScript", "Tsx", "TypeScript", "Go", "Java",
     "CSharp", "Ruby", "Cpp", "Swift"}

\* The node kinds extract_node opens a scope for (the match on lang, kind).
ScopeKinds(lang) ==
    CASE lang = "Rust" ->
            {"impl_item", "function_item", "struct_item", "enum_item",
             "trait_item"}
      [] lang = "Python" -> {"class_definition", "function_definition"}
      [] lang \in {"JavaScript", "Tsx", "TypeScript"} ->
            {"class_declaration", "function_declaration"}
      [] lang = "Go" -> {"function_declaration", "method_declaration"}
      [] lang \in {"Java", "CSharp"} ->
            {"method_declaration", "class_declaration"}
      [] lang = "Ruby" -> {"method", "class", "module"}
      [] lang \in {"Cpp", "Swift"} -> {"function_definition", "class_specifier"}

\* The node kinds the extractors emit a Function, Method, Class, Struct,
\* Impl or Module symbol for.
SymbolKinds(lang) ==
    CASE lang = "Rust" ->
            {"function_item", "struct_item", "impl_item", "mod_item"}
      [] lang = "Python" -> {"function_definition", "class_definition"}
      [] lang \in {"JavaScript", "Tsx", "TypeScript"} ->
            {"function_declaration", "class_declaration", "method_definition"}
      [] lang = "Go" -> {"function_declaration", "method_declaration"}
      [] lang \in {"Java", "CSharp"} ->
            {"method_declaration", "class_declaration"}
      [] lang = "Ruby" -> {"method", "class", "module"}
      [] lang \in {"Cpp", "Swift"} -> {"function_definition", "class_specifier"}

EnclosingKinds(lang) == SymbolKinds(lang) \cup {"block"}

ScopeNames == <<"outer", "inner", "innermost">>

\* The enclosing nodes of a call, outermost first; the node at depth i is
\* named ScopeNames[i].
Enclosings(lang) ==
    UNION {[1..n -> EnclosingKinds(lang)] : n \in 0..MaxNesting}

new_scope(lang, kind, name) ==
    IF kind \in ScopeKinds(lang) THEN Some(name) ELSE None

\* as_deref().or(current_scope)
OrScope(new, current_scope) == IF new.some THEN new ELSE current_scope

\* The call arm of the language extractors: the call is pushed with the
\* current scope as its caller, or dropped when there is none.
extract_call(current_scope) ==
    IF current_scope.some THEN <<[caller |-> current_scope.value]>> ELSE <<>>

RECURSIVE extract_node(_, _, _, _)
extract_node(lang, path, i, current_scope) ==
    IF i > Len(path) THEN extract_call(current_scope)
    ELSE extract_node(lang, path, i + 1,
             OrScope(new_scope(lang, path[i], ScopeNames[i]), current_scope))

ExtractCall(lang, path) ==
    /\ call' = [status |-> "extract", lang |-> lang, path |-> path,
                calls |-> extract_node(lang, path, 1, None)]
    /\ UNCHANGED <<gvars, dvars, cvars, pvars, wvars, cli, ctx, sig, poisoned>>

ExtractCallAny ==
    /\ call = NoCall
    /\ \E lang \in Languages : \E path \in Enclosings(lang) :
          ExtractCall(lang, path)

InitScopes == InitCli /\ tree = InitTree

SpecScopes == InitScopes /\ [][ExtractCallAny]_vars

(***************************************************************************)
(* Regular expressions and their derivatives (regex/ast.rs,                *)
(* regex/derivative.rs)                                                    *)
(***************************************************************************)
\* Longest word matched.
MaxWord == 3
\* Number of constructor calls a regex given to matches is built with.
MaxRegexOps == 2

Alphabet == {"a", "b"}

Words == UNION {[1..n -> Alphabet] : n \in 0..MaxWord}

\* enum Regex
Empty == [op |-> "Empty"]
Epsilon == [op |-> "Epsilon"]
Literal(c) == [op |-> "Literal", c |-> c]
\* Regex::Any
AnyChar == [op |-> "Any"]
Class(set) == [op |-> "Class", set |-> set]
Concat(r1, r2) == [op |-> "Concat", r1 |-> r1, r2 |-> r2]
Union(r1, r2) == [op |-> "Union", r1 |-> r1, r2 |-> r2]
Intersect(r1, r2) == [op |-> "Intersect", r1 |-> r1, r2 |-> r2]
Negate(r) == [op |-> "Negate", r |-> r]
Star(r) == [op |-> "Star", r |-> r]

\* Regex::concat: Empty annihilates, Epsilon is dropped.
concat(r1, r2) ==
    IF r1 = Empty \/ r2 = Empty THEN Empty
    ELSE IF r1 = Epsilon THEN r2
    ELSE IF r2 = Epsilon THEN r1
    ELSE Concat(r1, r2)

\* Regex::union: Empty is dropped.
union(r1, r2) ==
    IF r1 = Empty THEN r2
    ELSE IF r2 = Empty THEN r1
    ELSE Union(r1, r2)

\* Regex::intersect: Empty annihilates.
intersect(r1, r2) ==
    IF r1 = Empty \/ r2 = Empty THEN Empty ELSE Intersect(r1, r2)

\* Regex::negate: a double negation is removed.
negate(r) == IF r.op = "Negate" THEN r.r ELSE Negate(r)

\* Regex::star: the star of Empty or Epsilon is Epsilon, R** is R*.
star(r) ==
    IF r = Empty \/ r = Epsilon THEN Epsilon
    ELSE IF r.op = "Star" THEN r
    ELSE Star(r)

RECURSIVE nullable(_)
nullable(r) ==
    CASE r.op = "Empty" -> FALSE
      [] r.op = "Epsilon" -> TRUE
      [] r.op = "Literal" -> FALSE
      [] r.op = "Any" -> FALSE
      [] r.op = "Class" -> FALSE
      [] r.op = "Concat" -> nullable(r.r1) /\ nullable(r.r2)
      [] r.op = "Union" -> nullable(r.r1) \/ nullable(r.r2)
      [] r.op = "Intersect" -> nullable(r.r1) /\ nullable(r.r2)
      [] r.op = "Negate" -> ~nullable(r.r)
      [] r.op = "Star" -> TRUE

\* derivative that leaves out the second summand of a concatenation whose
\* first part is nullable.
RECURSIVE derivative_first_only(_, _)
derivative_first_only(r, c) ==
    CASE r.op = "Empty" -> Empty
      [] r.op = "Epsilon" -> Empty
      [] r.op = "Literal" -> IF r.c = c THEN Epsilon ELSE Empty
      [] r.op = "Any" -> Epsilon
      [] r.op = "Class" -> IF c \in r.set THEN Epsilon ELSE Empty
      [] r.op = "Concat" -> concat(derivative_first_only(r.r1, c), r.r2)
      [] r.op = "Union" ->
            union(derivative_first_only(r.r1, c),
                  derivative_first_only(r.r2, c))
      [] r.op = "Intersect" ->
            intersect(derivative_first_only(r.r1, c),
                      derivative_first_only(r.r2, c))
      [] r.op = "Negate" -> negate(derivative_first_only(r.r, c))
      [] r.op = "Star" -> concat(derivative_first_only(r.r, c), Star(r.r))

\* derivative(r, c)
RECURSIVE derivative(_, _)
derivative(r, c) ==
    CASE r.op = "Empty" -> Empty
      [] r.op = "Epsilon" -> Empty
      [] r.op = "Literal" -> IF r.c = c THEN Epsilon ELSE Empty
      [] r.op = "Any" -> Epsilon
      [] r.op = "Class" -> IF c \in r.set THEN Epsilon ELSE Empty
      [] r.op = "Concat" ->
            LET d1 == concat(derivative(r.r1, c), r.r2)
            IN IF nullable(r.r1) THEN union(d1, derivative(r.r2, c)) ELSE d1
      [] r.op = "Union" -> union(derivative(r.r1, c), derivative(r.r2, c))
      [] r.op = "Intersect" ->
            intersect(derivative(r.r1, c), derivative(r.r2, c))
      [] r.op = "Negate" -> negate(derivative(r.r, c))
      [] r.op = "Star" -> concat(derivative(r.r, c), Star(r.r))

\* matches(r, s): the derivative by every character in turn, then nullable.
RECURSIVE matches(_, _)
matches(r, s) ==
    IF s = <<>> THEN nullable(r)
    ELSE matches(derivative(r, Head(s)), Tail(s))

\* The regexes without a constructor call.
Atoms == {Empty, Epsilon, Literal("a"), AnyChar, Class({"b"})}

BinaryOps == {"concat", "union", "intersect"}
UnaryOps == {"negate", "star"}

\* The result of one constructor call.
Build(op, r1, r2) ==
    CASE op = "concat" -> concat(r1, r2)
      [] op = "union" -> union(r1, r2)
      [] op = "intersect" -> intersect(r1, r2)
      [] op = "negate" -> negate(r1)
      [] op = "star" -> star(r1)

\* The regexes built with at most n constructor calls.
RECURSIVE Built(_)
Built(n) ==
    IF n = 0 THEN Atoms
    ELSE Built(n - 1)
         \cup {Build(op, r, r) : op \in UnaryOps, r \in Built(n - 1)}
         \cup UNION {{Build(op, r1, r2) :
                        op \in BinaryOps, r1 \in Built(i),
                        r2 \in Built(n - 1 - i)} : i \in 0..(n - 1)}

\* The last constructor call of a regex of at most MaxRegexOps calls: the
\* constructor and its arguments (the second one is not used by negate
\* and star).
RegexCalls ==
    {<<op, r, Empty>> : op \in UnaryOps, r \in Built(MaxRegexOps - 1)}
    \cup UNION {BinaryOps \X Built(i) \X Built(MaxRegexOps - 1 - i) :
                  i \in 0..(MaxRegexOps - 1)}

\* A regex is built: the last constructor call and its result.
BuildRegex(op, r1, r2) ==
    /\ call' = [status |-> "built", op |-> op, r1 |-> r1, r2 |-> r2,
                regex |-> Build(op, r1, r2)]
    /\ UNCHANGED <<gvars, dvars, cvars, pvars, wvars, cli, ctx, sig, poisoned>>

BuildRegexAny ==
    /\ call = NoCall
    /\ \E build \in RegexCalls : BuildRegex(build[1], build[2], build[3])

\* matches(&regex, s) on the regex that was built.
Match(s) ==
    /\ call.status = "built"
    /\ call' = [call EXCEPT !.status = "regex"] @@
                [s |-> s, matched |-> matches(call.regex, s)]
    /\ UNCHANGED <<gvars, dvars, cvars, pvars, wvars, cli, ctx, sig, poisoned>>

NextRegex ==
    \/ BuildRegexAny
    \/ \E s \in Words : Match(s)

\* The regex engine is used on its own: no graph is built, no daemon runs.
InitRegex ==
    /\ InitIdle
    /\ watching = [d \in Daemons |-> FALSE]
    /\ tree = InitTree
    /\ graph = NewGraph
    /\ pending = {}
    /\ ops = 0
    /\ disk = NoFile
    /\ loaded = NoGraph
    /\ gone = {}
    /\ upd = [p \in Paths |-> NoUpdate]

SpecRegex == InitRegex /\ [][NextRegex]_vars

(***************************************************************************)
(* Matcher: matching with a cache of derivatives (regex/derivative.rs)     *)
(***************************************************************************)
\* Number of is_match and is_prefix_match calls on one Matcher.
MaxMatcherCalls == 3
\* Longest word given to a Matcher.
MaxMatcherWord == 3

MatcherWords == UNION {[1..n -> Alphabet] : n \in 0..MaxMatcherWord}

\* The regexes a Matcher is made for: a.*, a*, a|[b], a.*&.*[b], ~(a[b]),
\* a*[b] and (a|[b])*a.
MatcherRegexes ==
    {concat(Literal("a"), star(AnyChar)),
     star(Literal("a")),
     union(Literal("a"), Class({"b"})),
     intersect(concat(Literal("a"), star(AnyChar)),
               concat(star(AnyChar), Class({"b"}))),
     negate(concat(Literal("a"), Class({"b"}))),
     concat(star(Literal("a")), Class({"b"})),
     concat(star(union(Literal("a"), Class({"b"}))), Literal("a"))}

\* The entries of the cache under a key that looks at the character only.
cache_get_by_char(cache, r, c) == {e \in cache : e.key[2] = c}

\* The entries of the HashMap under the key (r, c).
cache_get(cache, r, c) == {e \in cache : e.key = <<r, c>>}

\* self.cache.entry(key).or_insert_with_key(|(r, ch)| derivative(r, *ch))
cache_entry(cache, r, c) ==
    IF cache_get(cache, r, c) # {}
    THEN [cache |-> cache, hit |-> 1,
          value |-> (CHOOSE e \in cache_get(cache, r, c) : TRUE).value]
    ELSE [cache |-> cache \cup {[key |-> <<r, c>>, value |-> derivative(r, c)]},
          hit |-> 0,
          value |-> derivative(r, c)]

\* The loop of is_match from the regex current on.
RECURSIVE is_match_from(_, _, _, _)
is_match_from(cache, current, s, hits) ==
    IF s = <<>>
    THEN [cache |-> cache, hits |-> hits, result |-> nullable(current)]
    ELSE LET e == cache_entry(cache, current, Head(s))
         IN is_match_from(e.cache, e.value, Tail(s), hits + e.hit)

\* Matcher::is_match
is_match(matcher, s) == is_match_from(matcher.cache, matcher.regex, s, 0)

\* The loop of is_prefix_match from the regex current on: true as soon as
\* the current regex is nullable.
RECURSIVE is_prefix_match_from(_, _, _, _)
is_prefix_match_from(cache, current, s, hits) ==
    IF nullable(current)
    THEN [cache |-> cache, hits |-> hits, result |-> TRUE]
    ELSE IF s = <<>>
    THEN [cache |-> cache, hits |-> hits, result |-> FALSE]
    ELSE LET e == cache_entry(cache, current, Head(s))
         IN is_prefix_match_from(e.cache, e.value, Tail(s), hits + e.hit)

\* Matcher::is_prefix_match
is_prefix_match(matcher, s) ==
    is_prefix_match_from(matcher.cache, matcher.regex, s, 0)

\* Matcher::new(regex)
MatcherNew(r) ==
    /\ call' = [status |-> "matcher", regex |-> r, cache |-> {},
                left |-> MaxMatcherCalls, method |-> "new", s |-> <<>>,
                hits |-> 0, result |-> FALSE]
    /\ UNCHANGED <<gvars, dvars, cvars, pvars, wvars, cli, ctx, sig, poisoned>>

MatcherNewAny ==
    /\ call = NoCall
    /\ \E r \in MatcherRegexes : MatcherNew(r)

\* matcher.is_match(s)
IsMatch(s) ==
    /\ call.status = "matcher"
    /\ call.left > 0
    /\ LET m == is_match(call, s)
       IN call' = [call EXCEPT !.cache = m.cache, !.left = @ - 1,
                               !.method = "is_match", !.s = s,
                               !.hits = m.hits, !.result = m.result]
    /\ UNCHANGED <<gvars, dvars, cvars, pvars, wvars, cli, ctx, sig, poisoned>>

\* matcher.is_prefix_match(s)
IsPrefixMatch(s) ==
    /\ call.status = "matcher"
    /\ call.left > 0
    /\ LET m == is_prefix_match(call, s)
       IN call' = [call EXCEPT !.cache = m.cache, !.left = @ - 1,
                               !.method = "is_prefix_match", !.s = s,
                               !.hits = m.hits, !.result = m.result]
    /\ UNCHANGED <<gvars, dvars, cvars, pvars, wvars, cli, ctx, sig, poisoned>>

NextMatcher ==
    \/ MatcherNewAny
    \/ \E s \in MatcherWords : IsMatch(s)
    \/ \E s \in MatcherWords : IsPrefixMatch(s)

SpecMatcher == InitRegex /\ [][NextMatcher]_vars

(***************************************************************************)
(* Properties of the graph, the watcher and persistence                    *)
(***************************************************************************)
\* The limit the round-trip test passes to search.
SearchLimit == 3
\* Depths of search_graph that are checked.
MaxDepth == 2

Queries == Names \cup {""}

\* C1: once every file event has been applied by the watcher, the visible
\* graph equals a graph build_graph produces for the current tree, up to
\* node ids.
C1_WatcherEqualsBuild ==
    pending = {} => View(graph) \in {View(b) : b \in build_graph(tree)}

\* C2: for a graph without tombstones (built by build_from_extractions),
\* save followed by load gives the same stats, the same visible nodes and
\* edges, and the same search results with the same calls lists.
NoTombstones(g) == \A i \in NodeIds(g) : ~g.nodes[i].removed

C2_SaveLoadRoundTrip ==
    (loaded.present /\ NoTombstones(loaded.of)) =>
        /\ stats(loaded.graph) = stats(loaded.of)
        /\ View(loaded.graph) = View(loaded.of)
        /\ \A q \in Queries :
              search(loaded.graph, q, SearchLimit) =
                  search(loaded.of, q, SearchLimit)

C2_Witness ==
    /\ loaded.present
    /\ NoTombstones(loaded.of)
    /\ stats(loaded.of).file_count = 2
    /\ \E k \in 1..Len(search(loaded.graph, "main", SearchLimit)) :
          search(loaded.graph, "main", SearchLimit)[k].calls = {"helper"}

\* C4: a watcher update of one changed file either removes all of the
\* file's old symbols and adds all symbols of the new content, or leaves
\* all old symbols in place and adds nothing; also when the read or the
\* extraction fails.
C4_UpdateAtomic ==
    \A p \in Paths :
        upd[p].kind = "rebuild" =>
            \/ /\ upd[p].ok
               /\ upd[p].before \cap upd[p].after = {}
               /\ upd[p].names = upd[p].want
            \/ upd[p].after = upd[p].before

\* C9: after remove_file(p) no query returns a symbol defined in p, in the
\* live graph and in a graph saved after the removal and loaded again.
NoSymbolOf(g, p) ==
    /\ symbols_in_file(g, p) = {}
    /\ \A q \in Queries :
          /\ \A k \in 1..Len(search(g, q, SearchLimit)) :
                search(g, q, SearchLimit)[k].file # p
          /\ \A d \in 0..MaxDepth :
                \A i \in search_graph(g, q, d).symbols :
                    g.nodes[i].file_path # p
    /\ \A n \in Names \cup Paths :
          /\ \A i \in dependents(g, n) :
                g.nodes[i].kind = "File" \/ g.nodes[i].file_path # p
          /\ \A i \in dependencies(g, n) : g.nodes[i].file_path # p

C9_RemovedInvisible ==
    /\ \A p \in gone : NoSymbolOf(graph, p)
    /\ loaded.present => \A p \in loaded.gone : NoSymbolOf(loaded.graph, p)

C9_Witness ==
    /\ loaded.present
    /\ \E p \in loaded.gone :
          \E i \in NodeIds(loaded.graph) :
             /\ loaded.graph.nodes[i].kind # "File"
             /\ loaded.graph.nodes[i].file_path = p
             /\ loaded.graph.nodes[i].removed
    /\ stats(loaded.graph).symbol_count > 0

\* C10: every Calls edge of the graph joins two visible symbols u -> v,
\* dependents(v.name) contains u and dependencies(u.name) contains v.
C10_CallsEdges ==
    \A e \in graph.edges :
        e.kind = "Calls" =>
            /\ IsVisible(graph, e.src) /\ graph.nodes[e.src].kind # "File"
            /\ IsVisible(graph, e.dst) /\ graph.nodes[e.dst].kind # "File"
            /\ e.src \in dependents(graph, graph.nodes[e.dst].name)
            /\ e.dst \in dependencies(graph, graph.nodes[e.src].name)

C10_Witness ==
    /\ \E p \in Paths : upd[p].kind = "rebuild" /\ upd[p].before # {}
    /\ \E p \in Paths : upd[p].kind = "remove" /\ upd[p].before # {}
    /\ \E e \in graph.edges : e.kind = "Calls"

\* The Defines edges that come into node i.
DefinesInto(g, i) == {e \in g.edges : e.kind = "Defines" /\ e.dst = i}

\* Every visible symbol of g has exactly one incoming Defines edge, from the
\* visible File node of its owning file.
OneDefines(g) ==
    \A i \in NodeIds(g) :
        (IsVisible(g, i) /\ g.nodes[i].kind # "File") =>
            /\ Cardinality(DefinesInto(g, i)) = 1
            /\ \A e \in DefinesInto(g, i) :
                  /\ IsVisible(g, e.src)
                  /\ g.nodes[e.src].kind = "File"
                  /\ g.nodes[e.src].file_path = g.nodes[i].file_path

\* C11: in the live graph and in a graph reconstructed by load, every
\* visible symbol has exactly one incoming Defines edge, and it comes from
\* the visible File node of the symbol's owning file.
C11_OneDefinesEdge ==
    /\ OneDefines(graph)
    /\ loaded.present => OneDefines(loaded.graph)

\* C12: save followed by load preserves node ids and tombstones: the loaded
\* graph has as many nodes as the saved one, the node at each position has
\* the same kind, name, file and removed bit, and every edge joins the same
\* positions.
C12_LoadExact ==
    loaded.present =>
        /\ Len(loaded.graph.nodes) = Len(loaded.of.nodes)
        /\ \A i \in NodeIds(loaded.of) :
              i \in NodeIds(loaded.graph)
                  /\ loaded.graph.nodes[i] = loaded.of.nodes[i]
        /\ loaded.graph.edges = loaded.of.edges

\* Neither index of g holds the id of a tombstoned node.
IndexClean(g) ==
    /\ \A p \in Paths : \A i \in g.file_index[p] : ~g.nodes[i].removed
    /\ \A n \in Names : \A i \in g.name_index[n] : ~g.nodes[i].removed

\* C13: the name index and the file index contain no id of a tombstoned
\* node, in the live graph and directly after load.
C13_IndexesClean ==
    /\ IndexClean(graph)
    /\ loaded.present => IndexClean(loaded.graph)

\* The number of nodes among the first k of g that are not tombstoned and
\* are File nodes (files = TRUE) or symbols (files = FALSE).
RECURSIVE LiveNodes(_, _, _)
LiveNodes(g, k, files) ==
    IF k = 0 THEN 0
    ELSE LiveNodes(g, k - 1, files)
           + (IF ~g.nodes[k].removed /\ ((g.nodes[k].kind = "File") = files)
              THEN 1 ELSE 0)

\* The number of edges of g whose two endpoints are not tombstoned.
LiveEdges(g) ==
    Cardinality(g.edges)
      - Cardinality({e \in g.edges :
                        g.nodes[e.src].removed \/ g.nodes[e.dst].removed})

StatsOverVisible(g) ==
    stats(g) = [file_count |-> LiveNodes(g, Len(g.nodes), TRUE),
                symbol_count |-> LiveNodes(g, Len(g.nodes), FALSE),
                total_edges |-> LiveEdges(g)]

CompleteFile(f) ==
    /\ f.synced
    /\ f.bytes = serialize(to_serializable(f.of))
    /\ deserialize(f.bytes).ok

\* C15: wherever save(path) stands or stops, the file at path is absent
\* only if it was never saved and otherwise holds one complete
\* serialization: until the rename it is the file that was there when save
\* was called, and what the rename puts there was written completely and
\* synced before.
C15_SaveAtomic ==
    /\ disk.present => CompleteFile(disk)
    /\ spc.pc # "idle" => disk = spc.prev

\* The process has stopped inside a save that had written part of its
\* bytes, while path holds an earlier serialization of a different graph.
C15_Witness ==
    /\ spc.pc = "idle"
    /\ tmp.present
    /\ Len(tmp.bytes) = 1
    /\ disk.present
    /\ disk.bytes # serialize(to_serializable(tmp.of))

\* C16: load returns an error and no graph for a missing and for an
\* undeserializable graph.bin, and a run of local mode that finds graph.bin
\* missing or undeserializable answers its command from a graph built from
\* the source tree.
C16_LoadFallback ==
    /\ CacheState(disk) \in {"missing", "corrupt"} => ~load(disk).ok
    /\ (cli.status # "none" /\ cli.cache \in {"missing", "corrupt"}) =>
          /\ cli.status = "answered"
          /\ \E g \in build_graph(tree) : cli.out = CliOutput(cli.cmd, g)

(***************************************************************************)
(* Properties of the daemon                                                *)
(***************************************************************************)
\* C3: as long as a read request holds its read guard, everything it has
\* computed is what the live graph of its daemon gives: the stats an
\* overview took first are the stats of the graph its searches will run
\* on, and a finished response is the response of that one graph, also
\* when a rebuild has built its graph and waits to swap it in.
C3_ReadsOneGraph ==
    \A c \in Conns :
        /\ hpc[c] = "rlocked2" =>
              hbuf[c].stats = stats(dgraph[Daemon(c)])
        /\ hpc[c] = "answered" =>
              hbuf[c] = ReadResponse(creq[c], dgraph[Daemon(c)])

\* An overview is between its two reads while a rebuild has built a graph
\* that answers differently and waits for the write lock.
C3_Witness ==
    \E c, w \in Conns :
        /\ hpc[c] = "rlocked2"
        /\ hpc[w] = "built"
        /\ Daemon(c) = Daemon(w)
        /\ ReadResponse("overview", hbuf[w].new_graph)
             # ReadResponse("overview", dgraph[Daemon(c)])

\* C5: once a shutdown request has set the flag, the daemon eventually
\* exits with the socket file and the pid file removed, whether or not a
\* further client connects.
C5_ShutdownExits ==
    shutdown[1] ~> (dpc[1] = "exited" /\ sockFile = 0 /\ pidFile = 0)

\* C6: no connection the accept loop has taken from the listener is
\* dropped without being handled.
C6_AcceptedHandled == \A c \in Conns : hpc[c] # "discarded"

\* C7: a connection whose request line does not decode is closed with
\* exactly one response frame, of status error, written to it.
C7_ProtocolErrorAnswered ==
    \A c \in Conns :
        creq[c] \in Undecodable /\ hpc[c] \in {"closed", "done"} =>
            Len(cresp[c]) = 1 /\ cresp[c][1].status = "error"

\* C8: while a daemon is alive and serving, the socket file is the one of
\* its listener and the pid file holds its pid, whatever other calls of
\* start_daemon are made for the root.
C8_SingleInstance ==
    \A d \in Daemons : Alive(d) => sockFile = d /\ pidFile = d

\* The handler of connection c takes the step that acquires the graph lock.
LockStep(c) ==
    /\ hpc'[c] # hpc[c]
    /\ \/ hpc[c] = "process" /\ creq[c] \in ReadCommands
       \/ hpc[c] = "built"

\* C17: while the graph lock is poisoned, every request that goes for the
\* lock gets an error response and leaves the graph alone, a watcher batch
\* is dropped without changing the graph or stopping the watcher, and the
\* daemon stays in its accept loop.
C17_PoisonedLock ==
    /\ [][\A c \in Conns :
            (poisoned[1] /\ LockStep(c)) =>
                /\ hpc'[c] = "respond"
                /\ hbuf'[c].status = "error"
                /\ dgraph' = dgraph]_vars
    /\ [][(poisoned[1] /\ pending # {} /\ pending' = {}) =>
            dgraph' = dgraph /\ watching'[1]]_vars
    /\ [](poisoned[1] => Alive(1))

\* The lock is poisoned and a stats request made afterwards has been
\* answered with the lock error.
C17_Witness ==
    /\ poisoned[1]
    /\ \E c \in Conns :
          /\ creq[c] = "stats"
          /\ hpc[c] = "done"
          /\ cresp[c] = <<Error("lock error")>>

(***************************************************************************)
(* Properties of context queries                                           *)
(***************************************************************************)
\* The intent the documentation gives as the meaning of an alias or of an
\* intent outside the documented set.
DocumentedAs(intent) ==
    CASE intent \in {"modify", "refactor"} -> "change"
      [] intent \in {"understand", "find", "bogus"} -> "explore"
      [] OTHER -> intent

\* The intents C18 is about.
AliasIntents == {"modify", "refactor", "understand", "find", "bogus"}

\* A response without the intent it echoes.
Payload(response) == [response EXCEPT !.intent = ""]

\* C18: a context request (the step that sets ctx) with intent modify or refactor is answered with
\* the fields of intent change, one with intent understand, find or an
\* intent outside the documented set with the fields of intent explore.
C18_IntentAliases ==
    [][(ctx' # ctx /\ ctx'.frame.data.intent \in AliasIntents) =>
            Payload(ctx'.frame.data) =
                Payload(get_context(graph, ctx'.frame.data.query,
                                    DocumentedAs(ctx'.frame.data.intent)))]_vars

\* The part of C18 that holds: understand, find and an intent outside the
\* documented set are answered as explore.
C18_ExploreAliases ==
    [][(ctx' # ctx /\ DocumentedAs(ctx'.frame.data.intent) = "explore") =>
            Payload(ctx'.frame.data) =
                Payload(get_context(graph, ctx'.frame.data.query,
                                    "explore"))]_vars

\* The collections of a response are all empty.
NothingFound(response) ==
    /\ ~response.found
    /\ response.symbols = <<>>
    /\ response.used_by = {}
    /\ response.uses = {}
    /\ response.edits = {}
    /\ response.patterns = <<>>
    /\ response.tests = {}

\* C19: a context request (the step that sets ctx) whose query matches no symbol is answered, under
\* every intent, with an ok frame holding found = false and empty
\* collections.
C19_NotFoundIsOk ==
    [][(ctx' # ctx /\ SearchMatches(graph, ctx'.frame.data.query) = {}) =>
            /\ ctx'.frame.status = "ok"
            /\ NothingFound(ctx'.frame.data)]_vars

\* A change request for a file path that other files import, which no
\* symbol matches, has been answered with found = false.
C19_Witness ==
    /\ ctx.status = "answered"
    /\ ctx.frame.data.query = "src/a.rs"
    /\ ctx.frame.data.intent = "change"
    /\ dependents(graph, "src/a.rs") # {}
    /\ ~ctx.frame.data.found

(***************************************************************************)
(* Properties of signatures                                                *)
(***************************************************************************)
\* The parameters of s, in order, whose name is not a name of other.
NotNamedIn(s, other) ==
    SelectSeq(s.params,
              LAMBDA p : \A k \in 1..Len(other.params) :
                            other.params[k].name # p.name)

\* C20: the diff of two parsed signatures goes by parameter name only:
\* added is exactly the parameters of new whose name is not in old, removed
\* exactly those of old whose name is not in new, and the diff taken the
\* other way round has added and removed exchanged.
C20_DiffByName ==
    /\ (sig.status = "parsed" /\ sig.forward # NoDiff) =>
          /\ sig.forward.added = NotNamedIn(sig.new, sig.old)
          /\ sig.forward.removed = NotNamedIn(sig.old, sig.new)
    /\ (sig.status = "parsed" /\ sig.forward # NoDiff
          /\ sig.backward # NoDiff) =>
          /\ sig.forward.added = sig.backward.removed
          /\ sig.forward.removed = sig.backward.added

\* Both diffs have been taken of two signatures that have a parameter of the
\* same name with different types at different positions, and one
\* parameter each that the other lacks.
C20_Witness ==
    /\ sig.status = "parsed"
    /\ sig.forward # NoDiff
    /\ sig.backward # NoDiff
    /\ sig.old.params = <<Param("input: &str"), Param("strict")>>
    /\ sig.new.params = <<Param("strict: bool")>>
    /\ sig.forward.added = <<>>
    /\ sig.forward.removed = <<Param("input: &str")>>

(***************************************************************************)
(* Properties of full builds                                               *)
(***************************************************************************)
\* The files of a tree whose read or extraction fails.
Failing(tr) == {p \in Paths : tr[p].exists /\ ~tr[p].ok}

\* The tree without the file p.
Without(tr, p) == [tr EXCEPT ![p] = Absent]

\* C21: a build (the step that sets graph) returns a graph, has no node of
\* a file that fails, and for every failing file the graph is one that a
\* build of the tree without that file gives.
C21_BuildSkipsFailures ==
    [][graph' # graph =>
         /\ \A i \in NodeIds(graph') :
               graph'.nodes[i].file_path \notin Failing(tree)
         /\ \A p \in Failing(tree) :
               graph' \in build_graph(Without(tree, p))]_vars

\* A tree with a failing file and a file with symbols has been built, and
\* the graph holds the symbols of the other file.
C21_Witness ==
    /\ ops = MaxBuildOps
    /\ Failing(tree) # {}
    /\ \E p \in Paths : symbols_in_file(graph, p) # {}

(***************************************************************************)
(* Properties of code snippets                                             *)
(***************************************************************************)
\* The snippet holds a truncation marker.
HasMarker(text) == \E k \in 1..Len(text) : text[k].marker # "none"

\* The text without the markers.
SourcePart(text) == SelectSeq(text, LAMBDA l : l.marker = "none")

\* The snippet of an extracted symbol, markers included, is within both
\* limits.
SnippetWithinLimits ==
    call.status \in {"snippet", "stored"} =>
        /\ Len(call.snippet) <= MAX_SNIPPET_LINES
        /\ TextBytes(call.snippet) <= MAX_SNIPPET_BYTES

\* The source part of the snippet ends on a character boundary.
SnippetOnBoundary ==
    call.status \in {"snippet", "stored"} =>
        \A k \in 1..Len(call.snippet) :
            call.snippet[k].bytes % call.snippet[k].w = 0

\* The snippet holds a marker exactly when its source part is not the whole
\* text of the symbol.
SnippetMarkedWhenCut ==
    call.status \in {"snippet", "stored"} =>
        (HasMarker(call.snippet) <=> SourcePart(call.snippet) # call.raw)

\* C22: the stored snippet of every extracted symbol, truncation marker
\* included, has at most 10 lines and at most 2048 bytes, ends on a
\* character boundary, and holds a marker exactly when the text was cut.
C22_SnippetBounded ==
    SnippetWithinLimits /\ SnippetOnBoundary /\ SnippetMarkedWhenCut

(***************************************************************************)
(* Properties of related tests                                             *)
(***************************************************************************)
\* C23: the tests of a change response are at most five, whatever the
\* number of test-named symbols and test-named dependents.
C23_TestsCapped ==
    call.status = "tests" => Len(call.tests) <= TestsCap

\* No test is listed twice.
TestsDistinct ==
    call.status = "tests" =>
        \A i, j \in 1..Len(call.tests) :
            i # j => call.tests[i] # call.tests[j]

(***************************************************************************)
(* Properties of suggested edits                                           *)
(***************************************************************************)
\* The edit the documentation describes for a call with the arguments args
\* when the target's signature changes from old to new.
DocumentedEdit(args, old, new) ==
    [usage |-> CallText("validate", args),
     suggested |->
        Some([name |-> new.name,
              args |-> args \o [k \in 1..Len(NotNamedIn(new, old)) |->
                                  <<"<", NotNamedIn(new, old)[k].name, ">">>]]),
     new_args |-> [k \in 1..Len(NotNamedIn(new, old)) |->
                     <<NotNamedIn(new, old)[k].name, ": ",
                       NotNamedIn(new, old)[k].typ>>],
     removed_args |-> [k \in 1..Len(NotNamedIn(old, new)) |->
                         NotNamedIn(old, new)[k].name]]

\* Without a new signature the edit has no suggestion.
NoSuggestionWithoutSignature ==
    (call.status = "edit" /\ ~call.new_signature.some) =>
        /\ ~call.edit.suggested.some
        /\ call.edit.new_args = <<>>
        /\ call.edit.removed_args = <<>>

\* With a new signature and a target whose definition is a Rust or
\* JavaScript function with its parameter list on one line, the edit is the
\* documented one.
SuggestionForOneLineFn ==
    (/\ call.status = "edit"
     /\ call.new_signature.some
     /\ call.def.keyword \in {"fn", "function"}
     /\ call.def.closed) =>
        call.edit = DocumentedEdit(call.args, parse(call.def.sig),
                                   parse(call.new_signature.value))

\* C24: with a new signature, the edit of a found call site has the
\* suggestion made of the new name, the call's arguments and a placeholder
\* per added parameter, new_args the added parameters and removed_args the
\* removed names; without a new signature it has no suggestion.
C24_SuggestedEdits ==
    /\ NoSuggestionWithoutSignature
    /\ (call.status = "edit" /\ call.new_signature.some) =>
          call.edit = DocumentedEdit(call.args, parse(call.def.sig),
                                     parse(call.new_signature.value))

(***************************************************************************)
(* Properties of the watcher thread and the graph lock                     *)
(***************************************************************************)
\* The indexes of g and its nodes agree: an index holds no tombstoned id,
\* every live node is entered under its path, and every live symbol under
\* its name.
IndexConsistent(g) ==
    /\ IndexClean(g)
    /\ \A i \in NodeIds(g) :
          ~g.nodes[i].removed =>
              /\ i \in g.file_index[g.nodes[i].file_path]
              /\ g.nodes[i].kind # "File" => i \in g.name_index[g.nodes[i].name]

\* A handler holds a read guard of the graph of daemon d.
ReadGuardHeld(d) == lock[d].readers # {}

\* The watcher thread is between graph.write() and the drop of its guard.
InBatch == wpc.pc \in {"locked", "removed"}

\* C25: while a handler holds a read guard the watcher thread is not
\* inside a batch (so no file is seen between its remove_file and its
\* re-insertion), the indexes agree with the nodes, and the graph does not
\* change under the reader.
C25_ReadersSeeWholeUpdates ==
    /\ [](ReadGuardHeld(1) => ~InBatch /\ IndexConsistent(dgraph[1]))
    /\ [][ReadGuardHeld(1) => dgraph' = dgraph]_vars

\* A handler holds its read guard while a collected batch waits for the
\* write guard.
C25_Witness ==
    /\ ReadGuardHeld(1)
    /\ wpc.pc = "batch"
    /\ \E p \in Paths : symbols_in_file(dgraph[1], p) # {}

\* The watcher thread is inside rebuild_file, before its read_to_string
\* and extract_file.
WatcherAtFileRead == wpc.pc = "removed"

\* C26: no thread is at a file read, a source parse or a timed wait while
\* it holds the graph lock: not the watcher thread in rebuild_file, not a
\* Context handler reading context lines, not a Create handler waiting
\* for a file lock.
C26_NoIoUnderGraphLock ==
    /\ WatcherAtFileRead => lock[1].writer # WatcherThread
    /\ \A c \in Conns : hpc[c] = "ctx_files" => ~ReadGuard(c)
    /\ \A c \in Conns : hpc[c] = "cr_waiting" => ~ReadGuard(c)

\* The three parts of C26 on their own.
WatcherReadsOffLock == WatcherAtFileRead => lock[1].writer # WatcherThread
ContextLinesOffLock == \A c \in Conns : hpc[c] = "ctx_files" => ~ReadGuard(c)
FileLockWaitOffLock == \A c \in Conns : hpc[c] = "cr_waiting" => ~ReadGuard(c)

\* The file locks connection c's handler holds.
FileLocksOf(c) == {p \in Paths : flock[p] = c}

\* Connection c's handler holds the graph lock.
GraphLockHeld(c) == ReadGuard(c) \/ lock[Daemon(c)].writer = c

\* C28: the graph lock is the last lock a thread takes and the first it
\* releases: a step in which a handler takes a file lock of the
\* LockManager is taken without the graph lock, and a step in which it
\* takes the graph lock is taken without a file lock.
C28_GraphLockLast ==
    [][\A c \in Conns :
          /\ (hpc[c] # "new" /\ FileLocksOf(c)' # FileLocksOf(c)
                  /\ FileLocksOf(c) \subseteq FileLocksOf(c)')
                => ~GraphLockHeld(c)
          /\ (hpc[c] # "new" /\ ~GraphLockHeld(c) /\ GraphLockHeld(c)')
                => FileLocksOf(c) = {}]_vars

\* No handler takes the graph lock while it holds a file lock.
NoGraphLockUnderFileLock ==
    [][\A c \in Conns :
          (hpc[c] # "new" /\ ~GraphLockHeld(c) /\ GraphLockHeld(c)')
                => FileLocksOf(c) = {}]_vars

\* The symbols the graph g shows for path p are those of p's current
\* content (none for a file that is gone or cannot be extracted).
FileCurrent(g, p) ==
    {g.nodes[i].name : i \in symbols_in_file(g, p)} =
        IF tree[p].exists /\ tree[p].ok
        THEN {tree[p].symbols[k] : k \in 1..Len(tree[p].symbols)}
        ELSE {}

\* A rebuild request has swapped in its graph, no other one is between its
\* build and its swap, and every file event has been applied.
RebuildSettled ==
    /\ watching[1]
    /\ pending = {}
    /\ \E c \in Conns : creq[c] = "rebuild" /\ hpc[c] \in {"respond", "done"}
    /\ \A c \in Conns : hpc[c] \notin {"built", "wlocked"}

\* C27: once a rebuild has swapped in its graph and all delivered watcher
\* batches have been applied, the live graph shows the current content of
\* every file.
C27_RebuildLosesNoChange ==
    RebuildSettled => \A p \in Paths : FileCurrent(dgraph[1], p)

\* C29: a rebuild handler holds the write guard only with its new graph
\* already built, and the step it takes under the guard replaces the live
\* graph by that graph; so a read request that arrives during the build
\* finds the lock free of the rebuild and reads the old graph.
C29_RebuildLocksOnlyForSwap ==
    /\ [](\A c \in Conns :
            lock[1].writer = c =>
                /\ hpc[c] = "wlocked"
                /\ hbuf[c].status = "built")
    /\ [][\A c \in Conns :
            (lock[1].writer = c /\ lock'[1].writer # c)
                => dgraph'[1] = hbuf[c].new_graph]_vars

\* A stats request has been answered from the old graph under its read
\* guard while a rebuild handler has built a different graph and not yet
\* swapped it in.
C29_Witness ==
    \E c, r \in Conns :
        /\ hpc[c] = "built"
        /\ hpc[r] = "answered"
        /\ creq[r] = "stats"
        /\ ReadGuard(r)
        /\ hbuf[r] = Ok(stats(dgraph[1]))
        /\ stats(dgraph[1]) # stats(hbuf[c].new_graph)

(***************************************************************************)
(* Properties of the start of a daemon                                     *)
(***************************************************************************)
\* The positions of start_daemon before its initial build has finished.
BeforeBuilt == {"off", "rm_sock", "write_pid", "build"}

\* daemon.pid is written before a stale anchor.sock is removed.
PidBeforeSocketRemoval == \A d \in Daemons : dpc[d] = "rm_sock" => pidFile = d

\* The socket is bound when the initial build starts and when the watcher
\* is started.
BoundBeforeBuild ==
    \A d \in Daemons : dpc[d] \in {"build", "watch"} => sockFile = d

\* No connection is taken from the listener, and no response written,
\* before the initial build of its daemon has finished and its watcher
\* has been started.
AnsweredAfterBuild ==
    \A c \in Conns :
        hpc[c] \notin {"new", "queued"} =>
            /\ dpc[Daemon(c)] \notin BeforeBuilt \cup {"watch", "bind"}
            /\ watching[Daemon(c)] \/ dpc[Daemon(c)] \in {"cleanup", "exited"}

\* C30: start_daemon creates .anchor/, writes daemon.pid, removes a stale
\* anchor.sock, binds the socket, builds the initial graph, starts the
\* watcher and enters the accept loop, in this order: the socket is bound
\* before the build starts, and no request is answered before the build
\* has finished.
C30_StartOrder ==
    /\ PidBeforeSocketRemoval
    /\ BoundBeforeBuild
    /\ AnsweredAfterBuild

(***************************************************************************)
(* Properties of event batches and paths                                   *)
(***************************************************************************)
\* The kind of the last event of the batch for file f (NoKind: no event).
LastKind(events, f) ==
    LET at == {k \in 1..Len(events) : events[k].file = f}
    IN IF at = {} THEN NoKind
       ELSE events[CHOOSE k \in at : \A j \in at : j <= k].kind

\* The ids of the nodes of file f that g has and b has not.
NewNodes(g, b, f) ==
    {i \in NodeIds(g) : i > Len(b.nodes) /\ g.nodes[i].file_path = f}

\* File f was applied exactly once to b: its old nodes are tombstoned, and
\* when it can be read it has one new File node and one new node per
\* symbol, which are the ones its indexes show.
AppliedOnce(g, b, f) ==
    /\ \A i \in NodeIds(b) : b.nodes[i].file_path = f => g.nodes[i].removed
    /\ FileCurrent(g, f)
    /\ Cardinality(NewNodes(g, b, f)) =
          IF tree[f].exists /\ tree[f].ok THEN 1 + Len(tree[f].symbols) ELSE 0
    /\ g.file_index[f] = NewNodes(g, b, f)

\* File f was not touched: its nodes and index entries are those of b.
Untouched(g, b, f) ==
    /\ NewNodes(g, b, f) = {}
    /\ \A i \in NodeIds(b) : b.nodes[i].file_path = f => g.nodes[i] = b.nodes[i]
    /\ g.file_index[f] = b.file_index[f]

\* C31: after a batch every source path whose last event is a settled one
\* has been applied exactly once (rebuilt when it exists, removed when it
\* does not), every other source path is untouched, and events of a file
\* with an unknown extension or below an ignored directory add nothing.
C31_BatchAppliesLastKind ==
    call.status = "batch" =>
        /\ \A f \in Paths :
              IF LastKind(call.events, f) = "Any"
              THEN AppliedOnce(graph, call.before, f)
              ELSE Untouched(graph, call.before, f)
        /\ Len(graph.nodes) =
              Len(call.before.nodes)
                + Cardinality(UNION {NewNodes(graph, call.before, f) : f \in Paths})

\* A batch with a continuous-write event and then a settled event for a
\* source file, and events for a text file and a file below target/.
C31_Witness ==
    /\ call.status = "batch"
    /\ Len(call.events) = 3
    /\ \E f \in Paths :
          /\ call.events[1].file = f /\ call.events[1].kind = "AnyContinuous"
          /\ call.events[2].file = f /\ call.events[2].kind = "Any"
    /\ call.events[3].file \notin Paths
    /\ graph # call.before

\* C32: a supported source file is found by the walk of build_graph if and
\* only if the watcher applies a change event for it.
C32_WalkEqualsWatch ==
    call.status = "path" => (call.walked <=> call.watched)

\* Both skip a path with a component named like an ignored directory.
BothSkipIgnoredDirs ==
    (call.status = "path"
        /\ \E k \in 1..Len(call.rel) : call.rel[k] \in IGNORED_DIRS)
      => ~call.walked /\ ~call.watched

\* The watcher skips every path below an ignored directory.
WatchSkipsIgnoredDirs ==
    (call.status = "path"
        /\ \E k \in 1..Len(call.rel) : call.rel[k] \in IGNORED_DIRS)
      => ~call.watched

\* C33: an event of a supported file that lies in no ignored directory
\* below the project root is applied, whatever the components of the
\* root's own path are.
C33_IgnoreBelowRootOnly ==
    (call.status = "path"
        /\ from_path(call.rel)
        /\ \A k \in 1..Len(call.rel) : call.rel[k] \notin IGNORED_DIRS)
      => call.watched

\* The same for a root none of whose components is an ignored name.
AppliedBelowPlainRoot ==
    (call.status = "path"
        /\ call.root = ProjectRoot
        /\ from_path(call.rel)
        /\ \A k \in 1..Len(call.rel) : call.rel[k] \notin IGNORED_DIRS)
      => call.watched

(***************************************************************************)
(* Properties of Signature::parse                                          *)
(***************************************************************************)
\* The parameter a written parameter stands for: the text before its
\* first colon and the text after it.
DocumentedParam(p) ==
    [name |-> <<p[1]>>,
     typ |-> IF Len(p) = 1 THEN <<>> ELSE SubSeq(p, 3, Len(p))]

\* The signature a written signature stands for.
DocumentedSignature(src) ==
    Some([name |-> <<src.name>>,
          params |-> [k \in 1..Len(src.params) |-> DocumentedParam(src.params[k])],
          return_type |-> IF src.ret = <<>> THEN None ELSE Some(src.ret)])

\* A text without a comma or a closing parenthesis.
Plain(text) == \A k \in 1..Len(text) : text[k] \notin {",", ")"}

\* C34: Signature::parse gives one parameter per top-level piece of the
\* parameter list, cut at its first colon into name and type, and the text
\* after the arrow as the return type.
C34_ParseTopLevel ==
    call.status = "signature" =>
        call.result = DocumentedSignature(call.source)

\* The same for signatures whose types hold no comma and no closing
\* parenthesis.
ParsePlainTypes ==
    call.status = "signature" =>
        ((/\ \A k \in 1..Len(call.source.params) : Plain(call.source.params[k])
          /\ Plain(call.source.ret))
            => call.result = DocumentedSignature(call.source))

(***************************************************************************)
(* Properties of the call-site search                                      *)
(***************************************************************************)
\* The positions of a line where the target's name is followed by "(".
CallsAt(line) ==
    {k \in 1..Len(line) - 1 : EndsWithTarget(line[k]) /\ line[k + 1] = "("}

\* The position of the bracket that closes the one opened at position
\* open, counting (), [] and {} (0: not on this line).
RECURSIVE Closing(_, _, _)
Closing(line, i, depth) ==
    IF i > Len(line) THEN 0
    ELSE IF line[i] \in {"(", "[", "{"} THEN Closing(line, i + 1, depth + 1)
    ELSE IF line[i] \in {")", "]", "}"}
         THEN IF depth = 1 THEN i ELSE Closing(line, i + 1, depth - 1)
    ELSE Closing(line, i + 1, depth)

\* The text of the call at position k of the line.
CallTextAt(line, k) ==
    <<UsageTarget>> \o SubSeq(line, k + 1, Closing(line, k + 1, 0))

\* The lines of the snippet that hold a call of the target, by offset.
LinesWithCall(code) == {i \in 1..Len(code) : CallsAt(code[i]) # {}}

\* C35: the usages are those of the lines that hold the target's name
\* followed by "(", wherever on the line; a usage is the call's text up to
\* its closing bracket; the edit's line is the dependent's line plus the
\* offset of the first such line.
C35_UsageOnEveryCallLine ==
    call.status = "usages" =>
        /\ {call.usages[k].line_offset + 1 : k \in 1..Len(call.usages)}
              = LinesWithCall(call.code)
        /\ \A k \in 1..Len(call.usages) :
              \E p \in CallsAt(call.usages[k].line) :
                  /\ Closing(call.usages[k].line, p + 1, 0) # 0
                  /\ call.usages[k].usage = CallTextAt(call.usages[k].line, p)
        /\ LinesWithCall(call.code) # {} =>
              call.line = Some(call.dep_line
                  + (CHOOSE i \in LinesWithCall(call.code) :
                        \A j \in LinesWithCall(call.code) : i <= j) - 1)

\* Every usage reported is the text of a call of its line up to the
\* closing bracket, the offsets are reported in order, and the edit's line
\* is the dependent's line plus the first reported offset.
UsagesAreCalls ==
    call.status = "usages" =>
        /\ \A k \in 1..Len(call.usages) :
              /\ call.usages[k].line = call.code[call.usages[k].line_offset + 1]
              /\ \E p \in CallsAt(call.usages[k].line) :
                    call.usages[k].usage = CallTextAt(call.usages[k].line, p)
        /\ \A k \in 1..Len(call.usages) - 1 :
              call.usages[k].line_offset < call.usages[k + 1].line_offset
        /\ call.usages # <<>> =>
              call.line = Some(call.dep_line + call.usages[1].line_offset)

\* A line whose first word holding the name is the call, closed on the
\* line, has a usage.
FirstOccurrenceFound ==
    call.status = "usages" =>
        \A i \in 1..Len(call.code) :
            (/\ FindSymbol(call.code[i]) \in CallsAt(call.code[i])
             /\ Closing(call.code[i], FindSymbol(call.code[i]) + 1, 0) # 0)
              => \E k \in 1..Len(call.usages) : call.usages[k].line_offset = i - 1

(***************************************************************************)
(* Properties of the scope of a call                                       *)
(***************************************************************************)
\* The depths at which a node of one of the given kinds encloses the call.
DepthsOf(path, kinds) == {i \in 1..Len(path) : path[i] \in kinds}

Deepest(depths) == CHOOSE i \in depths : \A j \in depths : j <= i

\* The calls to expect when the nodes of the given kinds are the scopes.
CallsUnder(path, kinds) ==
    IF DepthsOf(path, kinds) = {} THEN <<>>
    ELSE <<[caller |-> ScopeNames[Deepest(DepthsOf(path, kinds))]]>>

\* C36: the caller of an extracted call is the name of the nearest
\* function, method, class, struct, impl or module node that encloses the
\* call expression, in every supported language, and a call that no such
\* node encloses is not emitted.
C36_CallerIsNearestScope ==
    call.status = "extract" =>
        call.calls = CallsUnder(call.path, SymbolKinds(call.lang))

\* What the code does: the caller is the name of the nearest enclosing node
\* of the kinds extract_node opens a scope for, and without one nothing is
\* emitted.
CallerIsNearestOpenedScope ==
    call.status = "extract" =>
        call.calls = CallsUnder(call.path, ScopeKinds(call.lang))

\* A call that no function, method, class, struct, impl or module encloses
\* is not emitted.
UnscopedCallDropped ==
    (call.status = "extract" /\ DepthsOf(call.path, SymbolKinds(call.lang)) = {})
        => call.calls = <<>>

\* The languages whose scopes are all of their symbol-defining nodes.
FullyScoped == {"Python", "Go", "Java", "CSharp", "Ruby", "Cpp", "Swift"}

CallerNearestWhereFullyScoped ==
    (call.status = "extract" /\ call.lang \in FullyScoped) =>
        call.calls = CallsUnder(call.path, SymbolKinds(call.lang))

(***************************************************************************)
(* Properties of ping and shutdown                                         *)
(***************************************************************************)
ControlRequests == {"ping", "shutdown"}

\* A handler that has decoded a ping or a shutdown and not yet answered.
AtControl(c) ==
    /\ hpc[c] = "process"
    /\ Decode(creq[c]).request \in ControlRequests

\* C37: a ping or shutdown request is answered without the graph lock:
\* its handler can always take its step, also while the watcher thread or
\* a rebuild holds the write guard and when the lock is poisoned, and the
\* step answers Pong or Goodbye and leaves the lock as it is.
C37_ControlNeedsNoGraphLock ==
    /\ [](\A c \in Conns : AtControl(c) => ENABLED (Ping(c) \/ Shutdown(c)))
    /\ [][\A c \in Conns :
            (AtControl(c) /\ hpc'[c] # hpc[c]) =>
                /\ hpc'[c] = "respond"
                /\ hbuf'[c] = (IF Decode(creq[c]).request = "ping"
                               THEN Pong ELSE Goodbye)
                /\ lock' = lock
                /\ poisoned' = poisoned]_vars

\* A ping or shutdown has been answered while a write guard is held.
C37_Witness ==
    \E c \in Conns :
        /\ hpc[c] = "respond"
        /\ hbuf[c] \in {Pong, Goodbye}
        /\ lock[Daemon(c)].writer # 0

\* The holders of the write guard and the poisoned lock next to a ping or
\* shutdown that is about to be answered.
ControlUnderWatcherGuard ==
    \E c \in Conns : AtControl(c) /\ lock[Daemon(c)].writer = WatcherThread

ControlUnderRebuildGuard ==
    \E c \in Conns : AtControl(c) /\ lock[Daemon(c)].writer \in Conns

ControlOnPoisonedLock ==
    \E c \in Conns : AtControl(c) /\ poisoned[Daemon(c)]

(***************************************************************************)
(* Properties of the order of the extractions                              *)
(***************************************************************************)
\* The batch build_graph hands to build_from_extractions when the parallel
\* tasks finish in the given order.
BatchIn(order) ==
    [k \in 1..Len(order) |-> extract_file(order[k], tree[order[k]])]

\* The edges of a kind that join nodes of two different files.
CrossFileEdges(g, kind) ==
    {e \in VisibleEdges(g) :
        /\ e.kind = kind
        /\ g.nodes[e.src].file_path # g.nodes[e.dst].file_path}

\* C38: the graph a build leaves does not depend on the order in which the
\* extraction tasks finish: build_from_extractions on every permutation of
\* the batch gives the visible nodes and edges of the graph that was
\* built, up to node ids, Calls and Imports between files included.
C38_BuildOrderIndependent ==
    [][graph' # graph =>
         \A order \in Perms(Extractable(tree)) :
            View(build_from_extractions(NewGraph, BatchIn(order)))
                = View(graph')]_vars

\* A graph built from two files with a call and an import from one file to
\* the other.
C38_Witness ==
    /\ Cardinality(Extractable(tree)) = 2
    /\ graph \in build_graph(tree)
    /\ CrossFileEdges(graph, "Calls") # {}
    /\ CrossFileEdges(graph, "Imports") # {}

\* The orders of one batch give graphs that differ in their node ids.
OrdersDifferInIds ==
    /\ graph \in build_graph(tree)
    /\ \E g \in build_graph(tree) : g # graph

(***************************************************************************)
(* Properties of the regex matcher                                         *)
(***************************************************************************)
\* The regex a constructor call stands for, without normalisation.
Denoted(op, r1, r2) ==
    CASE op = "concat" -> Concat(r1, r2)
      [] op = "union" -> Union(r1, r2)
      [] op = "intersect" -> Intersect(r1, r2)
      [] op = "negate" -> Negate(r1)
      [] op = "star" -> Star(r1)

\* The language of a regex: w is a word of r.
RECURSIVE InLanguage(_, _)
InLanguage(r, w) ==
    CASE r.op = "Empty" -> FALSE
      [] r.op = "Epsilon" -> w = <<>>
      [] r.op = "Literal" -> w = <<r.c>>
      [] r.op = "Any" -> Len(w) = 1
      [] r.op = "Class" -> Len(w) = 1 /\ w[1] \in r.set
      [] r.op = "Concat" ->
            \E k \in 0..Len(w) :
                /\ InLanguage(r.r1, SubSeq(w, 1, k))
                /\ InLanguage(r.r2, SubSeq(w, k + 1, Len(w)))
      [] r.op = "Union" -> InLanguage(r.r1, w) \/ InLanguage(r.r2, w)
      [] r.op = "Intersect" -> InLanguage(r.r1, w) /\ InLanguage(r.r2, w)
      [] r.op = "Negate" -> ~InLanguage(r.r, w)
      [] r.op = "Star" ->
            \/ w = <<>>
            \/ \E k \in 1..Len(w) :
                /\ InLanguage(r.r, SubSeq(w, 1, k))
                /\ InLanguage(r, SubSeq(w, k + 1, Len(w)))

\* C39: matches(r, s) is true exactly when s is a word of the language of
\* r, intersection and complement included: the normalising constructors
\* keep the language of what they are given, nullable tells whether the
\* empty word is in the language, and the derivative by c accepts t exactly
\* when the regex accepts c followed by t.
C39_MatchesIsLanguage ==
    call.status = "regex" =>
        /\ call.matched = InLanguage(Denoted(call.op, call.r1, call.r2), call.s)
        /\ call.matched = InLanguage(call.regex, call.s)
        /\ nullable(call.regex) = InLanguage(call.regex, <<>>)
        /\ call.s # <<>> =>
              InLanguage(derivative(call.regex, Head(call.s)), Tail(call.s))
                  = InLanguage(call.regex, call.s)

\* A constructor has normalised its result and the regex matches a word of
\* two or more characters.
C39_Witness ==
    /\ call.status = "regex"
    /\ call.regex # Denoted(call.op, call.r1, call.r2)
    /\ call.matched
    /\ Len(call.s) >= 2

\* An intersection with a complement that matches a word.
IntersectWithComplementMatches ==
    /\ call.status = "regex"
    /\ call.regex.op = "Intersect"
    /\ call.regex.r2.op = "Negate"
    /\ call.matched
    /\ call.s # <<>>

(***************************************************************************)
(* Properties of the Matcher                                               *)
(***************************************************************************)
\* C40: is_match(s) of a Matcher gives what matches(regex, s) gives, for
\* every word and whatever is_match and is_prefix_match calls came before
\* on the same Matcher: the cache of derivatives changes no answer.
C40_MatcherAgreesWithMatches ==
    (call.status = "matcher" /\ call.method = "is_match") =>
        call.result = matches(call.regex, call.s)

\* An is_match call that followed an earlier call, took a derivative from
\* the cache and answered true.
C40_Witness ==
    /\ call.status = "matcher"
    /\ call.method = "is_match"
    /\ call.left < MaxMatcherCalls - 1
    /\ call.hits > 0
    /\ call.result

\* Every entry of the cache holds the derivative of its key.
CacheHoldsDerivatives ==
    call.status = "matcher" =>
        \A e \in call.cache : e.value = derivative(e.key[1], e.key[2])

\* is_prefix_match(s) is true exactly when the regex matches a prefix of s.
PrefixMatchIsMatchOfPrefix ==
    (call.status = "matcher" /\ call.method = "is_prefix_match") =>
        call.result = (\E k \in 0..Len(call.s) :
                          matches(call.regex, SubSeq(call.s, 1, k)))

\* An is_match call that answered false from the cache.
CachedMismatch ==
    /\ call.status = "matcher"
    /\ call.method = "is_match"
    /\ call.hits > 0
    /\ ~call.result

====
